---------------------------- MODULE Spec2Model ----------------------------
(***************************************************************************)
(* A model of the file browser view model of jupyter-js-filebrowser        *)
(* (src/src/browser.ts, class FileBrowserViewModel): the current directory *)
(* model, the selected indices, the notebook session ids, and every        *)
(* promise chain the view model starts on the contents manager and the     *)
(* notebook session manager.  Paths are strings, as in the source.         *)
(***************************************************************************)
EXTENDS Integers, Sequences, FiniteSets, TLC

(***************************************************************************)
(* Bounds of the model.                                                    *)
(***************************************************************************)
\* The number of view-model calls (promise chains) one behaviour starts.
MaxOps == 2

\* The number of segments of the roots normalizePath is called with.
MaxDepth == 3

\* The number of '../' a path handed to normalizePath starts with.
MaxUp == 3

\* The number of arrays the model of the accessors allocates.
MaxArrays == 5

\* The length up to which a caller grows an array it holds.
MaxLength == 2

\* The most files of one change event of the upload input.
MaxFiles == 2

\* The most move requests a behaviour emits before no new gesture starts.
MaxRequests == 1

\* The most items of the directory on which open() is called.
MaxItems == 3

\* The number of timers setTimeout arms in one behaviour.
MaxTimers == 4

\* The number of calls of the model's refresh() that are in flight at once.
MaxInFlight == 3

(***************************************************************************)
(* String helpers: JavaScript's indexOf(p) === 0, slice, split and join.   *)
(***************************************************************************)
StartsWith(s, p) == Len(s) >= Len(p) /\ SubSeq(s, 1, Len(p)) = p

\* s.slice(from, s.length), from counted from 0
SliceFrom(s, from) == SubSeq(s, from + 1, Len(s))

\* s[s.length - 1]
LastChar(s) == IF Len(s) = 0 THEN "" ELSE SubSeq(s, Len(s), Len(s))

RECURSIVE SplitAt(_, _, _)
SplitAt(s, i, cur) ==
    IF i > Len(s) THEN <<cur>>
    ELSE IF SubSeq(s, i, i) = "/" THEN <<cur>> \o SplitAt(s, i + 1, "")
    ELSE SplitAt(s, i + 1, cur \o SubSeq(s, i, i))

\* s.split('/')
Split(s) == SplitAt(s, 1, "")

\* parts.join('/')
RECURSIVE Join(_)
Join(parts) ==
    IF Len(parts) = 0 THEN ""
    ELSE IF Len(parts) = 1 THEN parts[1]
    ELSE parts[1] \o "/" \o Join(Tail(parts))

\* splice(0, n) that leaves no fewer than one element.
SpliceHeadAtLeastOne(parts, n) == SubSeq(parts, 1, IF n < 1 THEN 1 ELSE n)

\* The value returned by parts.splice(0, n): the first n elements, none
\* when n is negative.
SpliceHead(parts, n) == SubSeq(parts, 1, IF n < 0 THEN 0 ELSE n)

\* s.indexOf(p) !== -1
RECURSIVE ContainsFrom(_, _, _)
ContainsFrom(s, p, i) ==
    IF i + Len(p) - 1 > Len(s) THEN FALSE
    ELSE IF SubSeq(s, i, i + Len(p) - 1) = p THEN TRUE
    ELSE ContainsFrom(s, p, i + 1)

Contains(s, p) == ContainsFrom(s, p, 1)

(***************************************************************************)
(* normalizePath(root, path): a path relative to root made absolute.       *)
(***************************************************************************)
\* The branch for a leading '/' with the root kept.
AbsoluteBranchKeepsRoot(root, path) ==
    [root |-> root, path |-> SliceFrom(path, 1)]

\* A leading '/': the rest of the path, and the root is dropped.
AbsoluteBranch(root, path) == [root |-> "", path |-> SliceFrom(path, 1)]

\* A leading './': the rest of the path, under the root.
CurrentBranch(root, path) == [root |-> root, path |-> SliceFrom(path, 2)]

\* A leading '../../': the root loses its last two segments.
GrandparentBranch(root, path) ==
    [root |-> Join(SpliceHead(Split(root), Len(Split(root)) - 2)),
     path |-> SliceFrom(path, 6)]

\* A leading '../': the root loses its last segment.
ParentBranch(root, path) ==
    [root |-> Join(SpliceHead(Split(root), Len(Split(root)) - 1)),
     path |-> SliceFrom(path, 3)]

\* The path with its trailing '/' left in place.
KeepTrailingSlash(path) == path

\* One trailing '/' of the path is dropped.
StripTrailingSlash(path) ==
    IF LastChar(path) = "/" THEN SubSeq(path, 1, Len(path) - 1) ELSE path

\* The root and the path are combined if necessary.
Combine(root, path) ==
    IF root # "" /\ path # "" THEN root \o "/" \o path
    ELSE IF root # "" THEN root
    ELSE path

\* normalizePath after the test for '.'.
NormalizeRest(root, path) ==
    LET br == IF StartsWith(path, "/") THEN AbsoluteBranch(root, path)
              ELSE IF StartsWith(path, "./") THEN CurrentBranch(root, path)
              ELSE IF StartsWith(path, "../../")
                THEN GrandparentBranch(root, path)
              ELSE IF StartsWith(path, "../") THEN ParentBranch(root, path)
              ELSE [root |-> root, path |-> path]
    IN  Combine(br.root, StripTrailingSlash(br.path))

\* normalizePath without the test for '.'.
NormalizeWithoutDot(root, path) == NormalizeRest(root, path)

normalizePath(root, path) ==
    IF path = "." THEN root ELSE NormalizeRest(root, path)

(***************************************************************************)
(* The contents manager's side: a small tree of contents models.  The      *)
(* root holds two notebooks, a directory and a file; d holds a notebook    *)
(* and a directory; d/e is empty.                                          *)
(***************************************************************************)
Entry(name, path, type) == [name |-> name, path |-> path, type |-> type]

Directory(name, path, content) ==
    [name |-> name, path |-> path, type |-> "directory", content |-> content]

RootContent ==
    << Entry("a.ipynb", "a.ipynb", "notebook"),
       Entry("c.ipynb", "c.ipynb", "notebook"),
       Entry("d", "d", "directory"),
       Entry("f", "f", "file") >>

DContent ==
    << Entry("b.ipynb", "d/b.ipynb", "notebook"),
       Entry("e", "d/e", "directory") >>

DirectoryPaths == {"", "d", "d/e"}

FilePaths == {"a.ipynb", "c.ipynb", "f", "d/b.ipynb"}

ServerPaths == DirectoryPaths \cup FilePaths

\* What contentsManager.get(path) resolves with when it succeeds.
ContentsAt(path) ==
    IF path = "" THEN Directory("", "", RootContent)
    ELSE IF path = "d" THEN Directory("d", "d", DContent)
    ELSE IF path = "d/e" THEN Directory("e", "d/e", <<>>)
    ELSE IF path = "f" THEN
        [name |-> "f", path |-> "f", type |-> "file", content |-> <<"text">>]
    ELSE
        [name |-> Split(path)[Len(Split(path))], path |-> path,
         type |-> "notebook", content |-> <<"cells">>]

(***************************************************************************)
(* The session manager's side: the session ids listRunning may resolve     *)
(* with, and the status a connectTo may resolve with.                      *)
(***************************************************************************)
SessionId(id, path) == [id |-> id, notebook |-> [path |-> path]]

S1 == SessionId("s1", "a.ipynb")
S2 == SessionId("s2", "d/b.ipynb")
S3 == SessionId("s3", "c.ipynb")

Listings == { <<>>, <<S1, S2>>, <<S1, S3>> }

Statuses == {"idle", "busy"}


(***************************************************************************)
(* The state of one FileBrowserViewModel.                                  *)
(*   model            this._model: the contents model of the open          *)
(*                    directory                                            *)
(*   selectedIndices  this._selectedIndices                                *)
(*   sessionIds       this._sessionIds                                     *)
(*   ops              the promise chains started so far, one record per    *)
(*                    call of a view-model method: where the chain stands  *)
(*                    (pc), what its closures hold, the state of the       *)
(*                    promise the method returned, the service calls it    *)
(*                    made and the changed signals it emitted              *)
(***************************************************************************)
VARIABLES model, selectedIndices, sessionIds, ops

(***************************************************************************)
(* The arrays behind the accessors items and selected, by reference.       *)
(*   arrays       the arrays allocated so far; a reference is an index     *)
(*   selectedRef  the array this._selectedIndices refers to                *)
(*   contentRef   the array this._model.content refers to, 0 before the    *)
(*                first directory is loaded                                *)
(*   callerRefs   the arrays a caller of the view model holds              *)
(*   passedRef    the array last handed to set selected, 0 if none         *)
(*   returnedRefs the arrays the getters have returned                     *)
(*   mutatedRefs  the arrays a caller has pushed onto or popped from       *)
(***************************************************************************)
VARIABLES arrays, selectedRef, contentRef, callerRefs, passedRef,
          returnedRefs, mutatedRefs

(***************************************************************************)
(* The FileBrowser widget of src/src/index.ts and the view model it shows. *)
(*   browserPath      the view model's _path                               *)
(*   browserItems     the view model's _items                              *)
(*   browserSelected  the view model's _selectedIndices                    *)
(*   nodes            the widget's _items, the row nodes: for each row,    *)
(*                    whether its class list holds jp-mod-selected         *)
(*   refreshing       the paths whose listContents is in flight            *)
(*   updateRequested  an 'update-request' message is posted to the widget  *)
(*   lastEvent        the DOM event handled in the step that led to this   *)
(*                    state, with the rows that had the selected class     *)
(*                    when it came, the paths open() called get for and    *)
(*                    whether open() threw                                 *)
(* A get of open() that resolves emits opened with a file or a notebook,   *)
(* for which the widget does nothing: it changes no part of this state.    *)
(***************************************************************************)
VARIABLES browserPath, browserItems, browserSelected, nodes, refreshing,
          updateRequested, lastEvent

(***************************************************************************)
(* One call of normalizePath: its arguments, and its result once it has    *)
(* returned (no element before, one after).                                *)
(***************************************************************************)
VARIABLES resolveRoot, resolveInput, resolved

(***************************************************************************)
(* The upload control of src/src/buttons.ts, for one change event of its   *)
(* input.                                                                  *)
(*   files          event.target.files, empty before the event             *)
(*   promises       the array promises of _handleUploadEvent: for each     *)
(*                  file, the call of upload made for it (an index of      *)
(*                  ops), where its catch handler stands, the call of      *)
(*                  upload(file, true) the handler made (0: none) and how  *)
(*                  the promise pushed has settled                         *)
(*   all            the promise of Promise.all(promises)                   *)
(*   refreshCalls   the calls of this._model.refresh() made by the handler *)
(*   errorMessages  the errors handed to utils.showErrorMessage            *)
(***************************************************************************)
VARIABLES files, promises, all, refreshCalls, errorMessages

(***************************************************************************)
(* The drag controller of the FileBrowser widget (_evtMousedown,           *)
(* _evtMousemove, _evtMouseup and _startDrag, declared in                  *)
(* src/lib/index.d.ts).                                                    *)
(*   gesture    "idle", "armed" (button down, threshold not crossed) or    *)
(*              "dragging"                                                 *)
(*   dragData   _dragData: the row pressed and where it was pressed        *)
(*   pointer    where the last mouse event of the gesture was              *)
(*   payload    the paths being dragged                                    *)
(*   requests   the move requests emitted                                  *)
(***************************************************************************)
VARIABLES gesture, dragData, pointer, payload, requests

(***************************************************************************)
(* One call of FileBrowserWidget.open() of src/src/browser.ts.             *)
(*   sortedItems    what this._model.getSortedItems() returns              *)
(*   selectedNames  the names for which this._model.isSelected is true     *)
(*   opened         empty before the call; after it, one record with the   *)
(*                  names cd was called with and the items openRequested   *)
(*                  was emitted with, in order                             *)
(***************************************************************************)
VARIABLES sortedItems, selectedNames, opened

(***************************************************************************)
(* The auto-refresh of FileBrowserWidget of src/src/browser.ts.            *)
(*   widgetModel  this._model of the widget: "model", or "null" once the   *)
(*                widget is disposed                                       *)
(*   connected    _handleRefresh is connected to the model's refreshed     *)
(*   timeoutId    this._timeoutId                                          *)
(*   timers       the ids of the timers that are armed and have neither    *)
(*                fired nor been cleared                                   *)
(*   timerCount   the number of timers setTimeout has armed                *)
(*   inFlight     the calls of this._model.refresh() that have not settled *)
(*   lastFire     what the last timer callback did: "none" before any,     *)
(*                "refresh" when it called the model's refresh(), "threw"  *)
(*                when this._model was null                                *)
(***************************************************************************)
VARIABLES widgetModel, connected, timeoutId, timers, timerCount, inFlight,
          lastFire

viewModelVars == <<model, selectedIndices, sessionIds, ops>>

resolveVars == <<resolveRoot, resolveInput, resolved>>

widgetVars == <<browserPath, browserItems, browserSelected, nodes,
                refreshing, updateRequested, lastEvent>>

buttonVars == <<files, promises, all, refreshCalls, errorMessages>>

dragVars == <<gesture, dragData, pointer, payload, requests>>

openVars == <<sortedItems, selectedNames, opened>>

timerVars == <<widgetModel, connected, timeoutId, timers, timerCount,
               inFlight, lastFire>>

arrayVars == <<arrays, selectedRef, contentRef, callerRefs, passedRef,
               returnedRefs, mutatedRefs>>

vars == <<model, selectedIndices, sessionIds, ops,
          arrays, selectedRef, contentRef, callerRefs, passedRef,
          returnedRefs, mutatedRefs,
          browserPath, browserItems, browserSelected, nodes, refreshing,
          updateRequested, lastEvent,
          resolveRoot, resolveInput, resolved,
          files, promises, all, refreshCalls, errorMessages,
          gesture, dragData, pointer, payload, requests,
          sortedItems, selectedNames, opened,
          widgetModel, connected, timeoutId, timers, timerCount, inFlight,
          lastFire>>

Null == [type |-> "null"]

NoSession == SessionId("", "")

NoFile == [name |-> "", size |-> 0]

NewOp(kind, pc) ==
    [kind |-> kind, pc |-> pc, promise |-> "pending", path |-> "",
     arg |-> "", file |-> NoFile, overwrite |-> FALSE, contents |-> Null,
     paths |-> <<>>, sessionId |-> NoSession, pending |-> {},
     calls |-> <<>>, emitted |-> <<>>, error |-> ""]

Call(service, method, arg) ==
    [service |-> service, method |-> method, arg |-> arg]

\* this.changed.emit(change), as a listener receives it
Emit(op, change) == [op EXCEPT !.emitted = Append(@, change)]

Resolve(op) == [op EXCEPT !.pc = "done", !.promise = "resolved"]

Reject(op, error) ==
    [op EXCEPT !.pc = "done", !.promise = "rejected", !.error = error]

\* No row is pressed.
NoDragData == [index |-> -1, pressX |-> 0, pressY |-> 0]

\* No DOM event was handled in the last step.
NoEvent ==
    [type |-> "none", button |-> 0, hit |-> "none", index |-> -1,
     key |-> "none", rows |-> <<>>, gets |-> {}, threw |-> FALSE]

\* The FileBrowserWidget after its constructor: the model is held, its
\* refreshed signal is connected to _handleRefresh, _timeoutId is -1 and no
\* timer is armed.
NoTimer ==
    /\ widgetModel = "model"
    /\ connected = TRUE
    /\ timeoutId = -1
    /\ timers = {}
    /\ timerCount = 0
    /\ inFlight = 0
    /\ lastFire = "none"

\* The constructor: this._model = { path: path, name: '', type: 'directory' },
\* with path = '' as in the example.
InitBrowser ==
    /\ model = [path |-> "", name |-> "", type |-> "directory"]
    /\ selectedIndices = <<>>
    /\ sessionIds = <<>>
    /\ ops = <<>>
    /\ arrays = << <<>> >>
    /\ selectedRef = 1
    /\ contentRef = 0
    /\ callerRefs = {}
    /\ passedRef = 0
    /\ returnedRefs = {}
    /\ mutatedRefs = {}
    /\ browserPath = ""
    /\ browserItems = <<>>
    /\ browserSelected = <<>>
    /\ nodes = <<>>
    /\ refreshing = {}
    /\ updateRequested = FALSE
    /\ lastEvent = NoEvent
    /\ files = <<>>
    /\ promises = <<>>
    /\ all = "none"
    /\ refreshCalls = 0
    /\ errorMessages = <<>>
    /\ gesture = "idle"
    /\ dragData = NoDragData
    /\ pointer = [x |-> 0, y |-> 0]
    /\ payload = <<>>
    /\ requests = <<>>
    /\ NoTimer

\* FileBrowserWidget.open() is not followed: no items, and no call of it.
NoWidgetOpen ==
    /\ sortedItems = <<>>
    /\ selectedNames = {}
    /\ opened = <<>>

\* The state after construction; the call of normalizePath that is followed
\* is normalizePath('', '.'), which has returned.
Init ==
    /\ InitBrowser
    /\ NoWidgetOpen
    /\ resolveRoot = ""
    /\ resolveInput = "."
    /\ resolved = <<"">>

(***************************************************************************)
(* open(path) and _findSessions().                                         *)
(***************************************************************************)
OpenInputs == {"d", "e", "f", "../"}

Notebooks(m) == SelectSeq(m.content, LAMBDA c : c.type = "notebook")

NotebookPaths(m) == [k \in 1..Len(Notebooks(m)) |-> Notebooks(m)[k].path]

\* paths.indexOf(p) !== -1
InPaths(paths, p) == \E k \in 1..Len(paths) : paths[k] = p

\* The session ids of a listing for which the loop of _findSessions
\* calls connectTo.
Matching(listing, paths) ==
    SelectSeq(listing, LAMBDA s : InPaths(paths, s.notebook.path))

\* get isDisposed(): this._model === null
IsDisposed == model = Null

\* dispose(): this._model = null, this._selectedIndices = null, and the
\* listeners of the signals are disconnected.  The promise chains that are
\* in flight are left alone, and so is this._sessionIds.
Dispose ==
    /\ ~IsDisposed
    /\ model' = Null
    /\ selectedIndices' = Null
    /\ UNCHANGED <<sessionIds, ops>>
    /\ UNCHANGED arrayVars
    /\ UNCHANGED widgetVars
    /\ UNCHANGED resolveVars
    /\ UNCHANGED timerVars
    /\ UNCHANGED openVars
    /\ UNCHANGED dragVars
    /\ UNCHANGED buttonVars

\* open(path): the path is normalized and contentsManager.get is called.
\* On a disposed view model reading this._model.path throws, and no chain
\* is started.
OpenCall(input) ==
    /\ ~IsDisposed
    /\ Len(ops) < MaxOps
    /\ LET path == normalizePath(model.path, input)
       IN  ops' = Append(ops, [NewOp("open", "get") EXCEPT
                                 !.path = path,
                                 !.calls = <<Call("contents", "get", path)>>])
    /\ UNCHANGED <<model, selectedIndices, sessionIds>>
    /\ UNCHANGED arrayVars
    /\ UNCHANGED widgetVars
    /\ UNCHANGED resolveVars
    /\ UNCHANGED timerVars
    /\ UNCHANGED openVars
    /\ UNCHANGED dragVars
    /\ UNCHANGED buttonVars

\* The get of an open is rejected.
OpenGetFail(i) ==
    /\ ops[i].kind = "open" /\ ops[i].pc = "get"
    /\ ops' = [ops EXCEPT ![i] = Reject(@, "get failed")]
    /\ UNCHANGED <<model, selectedIndices, sessionIds>>
    /\ UNCHANGED arrayVars
    /\ UNCHANGED widgetVars
    /\ UNCHANGED resolveVars
    /\ UNCHANGED timerVars
    /\ UNCHANGED openVars
    /\ UNCHANGED dragVars
    /\ UNCHANGED buttonVars

\* _findSessions() without the early return for a directory that holds no
\* notebook.
FindSessionsAlwaysLists(op, contents, change) ==
    [op EXCEPT !.pc = "list",
               !.contents = contents,
               !.paths = <<>>,
               !.calls = Append(@, Call("sessions", "listRunning", ""))]

\* The first steps of _findSessions(), run in the callback of get: the
\* session ids are reset, and listRunning is called when the directory
\* holds a notebook.
FindSessionsStart(op, contents, change) ==
    IF Len(Notebooks(contents)) = 0
    THEN Resolve(Emit(op, change))
    ELSE [op EXCEPT !.pc = "list",
                    !.contents = contents,
                    !.paths = NotebookPaths(contents),
                    !.calls = Append(@, Call("sessions", "listRunning", ""))]

\* The file branch with the emit left out.
OpenFileSilently(op, change) == Resolve(op)

\* The branch of open for a file or a notebook: the change is emitted and the
\* promise resolves with the contents.
OpenFile(op, change) == Resolve(Emit(op, change))

\* The get of an open resolves with the contents at the path.
OpenGetDone(i) ==
    /\ ops[i].kind = "open" /\ ops[i].pc = "get"
    /\ ops[i].path \in ServerPaths
    /\ LET contents == ContentsAt(ops[i].path)
           change == [name |-> "open", oldValue |-> Null,
                      newValue |-> contents]
       IN  IF contents.type = "directory"
           THEN /\ model' = contents
                /\ sessionIds' = <<>>
                /\ ops' = [ops EXCEPT
                             ![i] = FindSessionsStart(@, contents, change)]
           ELSE /\ ops' = [ops EXCEPT ![i] = OpenFile(@, change)]
                /\ UNCHANGED <<model, sessionIds>>
    /\ UNCHANGED selectedIndices
    /\ UNCHANGED arrayVars
    /\ UNCHANGED widgetVars
    /\ UNCHANGED resolveVars
    /\ UNCHANGED timerVars
    /\ UNCHANGED openVars
    /\ UNCHANGED dragVars
    /\ UNCHANGED buttonVars

\* listRunning is rejected: so is the promise of open.
ListRunningFail(i) ==
    /\ ops[i].kind = "open" /\ ops[i].pc = "list"
    /\ ops' = [ops EXCEPT ![i] = Reject(@, "listRunning failed")]
    /\ UNCHANGED <<model, selectedIndices, sessionIds>>
    /\ UNCHANGED arrayVars
    /\ UNCHANGED widgetVars
    /\ UNCHANGED resolveVars
    /\ UNCHANGED timerVars
    /\ UNCHANGED openVars
    /\ UNCHANGED dragVars
    /\ UNCHANGED buttonVars

\* The change open emits: { name: 'open', oldValue: null, newValue: contents }
OpenChange(op) ==
    [name |-> "open", oldValue |-> Null, newValue |-> op.contents]

\* The callback of listRunning: connectTo is called for every listed session
\* whose notebook path is a path of the directory's notebooks.  The loop
\* variable is declared with var, so after the loop every callback of
\* connectTo reads the last session id of the listing.
ListRunningDone(i, listing) ==
    /\ ops[i].kind = "open" /\ ops[i].pc = "list"
    /\ LET match == Matching(listing, ops[i].paths)
       IN  ops' = [ops EXCEPT ![i] =
             IF Len(listing) = 0 \/ Len(match) = 0
             THEN Resolve(Emit(@, OpenChange(@)))
             ELSE [@ EXCEPT
                     !.pc = "connect",
                     !.sessionId = listing[Len(listing)],
                     !.pending = {match[k].id : k \in 1..Len(match)},
                     !.calls = @ \o [k \in 1..Len(match) |->
                          Call("sessions", "connectTo", match[k].id)]]]
    /\ UNCHANGED <<model, selectedIndices, sessionIds>>
    /\ UNCHANGED arrayVars
    /\ UNCHANGED widgetVars
    /\ UNCHANGED resolveVars
    /\ UNCHANGED timerVars
    /\ UNCHANGED openVars
    /\ UNCHANGED dragVars
    /\ UNCHANGED buttonVars

\* The session id a callback of connectTo pushes.
PushedSessionId(op, id) == op.sessionId

\* What becomes of the chain when one connectTo has settled: Promise.all
\* rejects with the first rejection and resolves when every connectTo has
\* resolved, and then the change is emitted.
AfterConnect(op, id, failed) ==
    LET left == op.pending \ {id}
        op1 == [op EXCEPT !.pending = left,
                          !.pc = IF left = {} THEN "done" ELSE "connect"]
    IN  IF op.promise # "pending" THEN op1
        ELSE IF failed
          THEN [op1 EXCEPT !.promise = "rejected",
                           !.error = "connectTo failed"]
        ELSE IF left = {}
          THEN [Emit(op1, OpenChange(op1)) EXCEPT !.promise = "resolved"]
        ELSE op1

\* A connectTo resolves with a session of the given status.
ConnectDone(i, id, status) ==
    /\ ops[i].kind = "open" /\ ops[i].pc = "connect"
    /\ id \in ops[i].pending
    /\ sessionIds' = IF status = "idle"
                       THEN Append(sessionIds, PushedSessionId(ops[i], id))
                       ELSE sessionIds
    /\ ops' = [ops EXCEPT ![i] = AfterConnect(@, id, FALSE)]
    /\ UNCHANGED <<model, selectedIndices>>
    /\ UNCHANGED arrayVars
    /\ UNCHANGED widgetVars
    /\ UNCHANGED resolveVars
    /\ UNCHANGED timerVars
    /\ UNCHANGED openVars
    /\ UNCHANGED dragVars
    /\ UNCHANGED buttonVars

\* A connectTo is rejected.
ConnectFail(i, id) ==
    /\ ops[i].kind = "open" /\ ops[i].pc = "connect"
    /\ id \in ops[i].pending
    /\ ops' = [ops EXCEPT ![i] = AfterConnect(@, id, TRUE)]
    /\ UNCHANGED <<model, selectedIndices, sessionIds>>
    /\ UNCHANGED arrayVars
    /\ UNCHANGED widgetVars
    /\ UNCHANGED resolveVars
    /\ UNCHANGED timerVars
    /\ UNCHANGED openVars
    /\ UNCHANGED dragVars
    /\ UNCHANGED buttonVars

(***************************************************************************)
(* rename, copy, delete and newUntitled: each normalizes its paths and     *)
(* hands them to the contents manager.                                     *)
(***************************************************************************)
RenameInputs == { <<"f", "g">> }

CopyInputs == { <<"f", "d">> }

DeleteInputs == {"f"}

NewUntitledInputs == { <<"file", "">>, <<"notebook", ".x">> }

\* The last segment of a path.
BaseName(path) == Split(path)[Len(Split(path))]

RenameCall(from, to) ==
    /\ Len(ops) < MaxOps
    /\ LET path == normalizePath(model.path, from)
           newPath == normalizePath(model.path, to)
       IN  ops' = Append(ops, [NewOp("rename", "rename") EXCEPT
                     !.path = path,
                     !.arg = newPath,
                     !.calls = <<Call("contents", "rename",
                                      <<path, newPath>>)>>])
    /\ UNCHANGED <<model, selectedIndices, sessionIds>>
    /\ UNCHANGED arrayVars
    /\ UNCHANGED widgetVars
    /\ UNCHANGED resolveVars
    /\ UNCHANGED timerVars
    /\ UNCHANGED openVars
    /\ UNCHANGED dragVars
    /\ UNCHANGED buttonVars

\* The change rename emits: oldValue is this._model at the time of the
\* callback.
RenameChange(contents) ==
    [name |-> "rename", oldValue |-> model, newValue |-> contents]

RenameDone(i) ==
    /\ ops[i].kind = "rename" /\ ops[i].pc = "rename"
    /\ ops[i].path \in FilePaths
    /\ LET contents == Entry(BaseName(ops[i].arg), ops[i].arg,
                             ContentsAt(ops[i].path).type)
       IN  ops' = [ops EXCEPT ![i] = Resolve(Emit(@, RenameChange(contents)))]
    /\ UNCHANGED <<model, selectedIndices, sessionIds>>
    /\ UNCHANGED arrayVars
    /\ UNCHANGED widgetVars
    /\ UNCHANGED resolveVars
    /\ UNCHANGED timerVars
    /\ UNCHANGED openVars
    /\ UNCHANGED dragVars
    /\ UNCHANGED buttonVars

CopyCall(fromFile, toDir) ==
    /\ Len(ops) < MaxOps
    /\ LET from == normalizePath(model.path, fromFile)
           to == normalizePath(model.path, toDir)
       IN  ops' = Append(ops, [NewOp("copy", "copy") EXCEPT
                     !.path = from,
                     !.arg = to,
                     !.calls = <<Call("contents", "copy", <<from, to>>)>>])
    /\ UNCHANGED <<model, selectedIndices, sessionIds>>
    /\ UNCHANGED arrayVars
    /\ UNCHANGED widgetVars
    /\ UNCHANGED resolveVars
    /\ UNCHANGED timerVars
    /\ UNCHANGED openVars
    /\ UNCHANGED dragVars
    /\ UNCHANGED buttonVars

DeleteCall(input) ==
    /\ Len(ops) < MaxOps
    /\ LET path == normalizePath(model.path, input)
       IN  ops' = Append(ops, [NewOp("delete", "delete") EXCEPT
                     !.path = path,
                     !.calls = <<Call("contents", "delete", path)>>])
    /\ UNCHANGED <<model, selectedIndices, sessionIds>>
    /\ UNCHANGED arrayVars
    /\ UNCHANGED widgetVars
    /\ UNCHANGED resolveVars
    /\ UNCHANGED timerVars
    /\ UNCHANGED openVars
    /\ UNCHANGED dragVars
    /\ UNCHANGED buttonVars

\* newUntitled(type, ext): ext defaults to '.txt' for a file and is
\* emptied for every other type.
NewUntitledExt(type, ext) ==
    IF type = "file" THEN (IF ext = "" THEN ".txt" ELSE ext) ELSE ""

NewUntitledCall(type, ext) ==
    /\ Len(ops) < MaxOps
    /\ ops' = Append(ops, [NewOp("newUntitled", "newUntitled") EXCEPT
                  !.path = model.path,
                  !.calls = <<Call("contents", "newUntitled",
                       <<model.path, type, NewUntitledExt(type, ext)>>)>>])
    /\ UNCHANGED <<model, selectedIndices, sessionIds>>
    /\ UNCHANGED arrayVars
    /\ UNCHANGED widgetVars
    /\ UNCHANGED resolveVars
    /\ UNCHANGED timerVars
    /\ UNCHANGED openVars
    /\ UNCHANGED dragVars
    /\ UNCHANGED buttonVars

\* copy, delete and newUntitled return the promise of the contents manager
\* as it is: when it resolves, so does the call, and nothing else happens.
DelegateKinds == {"copy", "delete", "newUntitled"}

DelegateDone(i) ==
    /\ ops[i].kind \in DelegateKinds /\ ops[i].pc = ops[i].kind
    /\ ops[i].kind # "newUntitled" => ops[i].path \in ServerPaths
    /\ ops' = [ops EXCEPT ![i] = Resolve(@)]
    /\ UNCHANGED <<model, selectedIndices, sessionIds>>
    /\ UNCHANGED arrayVars
    /\ UNCHANGED widgetVars
    /\ UNCHANGED resolveVars
    /\ UNCHANGED timerVars
    /\ UNCHANGED openVars
    /\ UNCHANGED dragVars
    /\ UNCHANGED buttonVars

\* The contents manager rejects a rename, copy, delete or newUntitled.
ContentsFail(i) ==
    /\ ops[i].kind \in DelegateKinds \cup {"rename"}
    /\ ops[i].pc = ops[i].kind
    /\ ops' = [ops EXCEPT ![i] = Reject(@, ops[i].kind \o " failed")]
    /\ UNCHANGED <<model, selectedIndices, sessionIds>>
    /\ UNCHANGED arrayVars
    /\ UNCHANGED widgetVars
    /\ UNCHANGED resolveVars
    /\ UNCHANGED timerVars
    /\ UNCHANGED openVars
    /\ UNCHANGED dragVars
    /\ UNCHANGED buttonVars

(***************************************************************************)
(* upload(file, overwrite) and _upload(file).                              *)
(***************************************************************************)
max_upload_size_mb == 15

MaxUploadBytes == max_upload_size_mb * 1024 * 1024

UploadFiles ==
    { [name |-> n, size |-> s] :
        n \in {"f", "b.ipynb"},
        s \in {MaxUploadBytes, MaxUploadBytes + 1} }

\* The size check with the ceiling itself rejected.
TooBigAtCeiling(file) == file.size >= MaxUploadBytes

\* file.size > this._max_upload_size_mb * 1024 * 1024
TooBig(file) == file.size > MaxUploadBytes

\* _upload(file) up to the start of the read: the path is the current
\* directory joined with the name of the file.
UploadRead(op, root) ==
    [op EXCEPT !.pc = "read",
               !.path = IF root # "" THEN root \o "/" \o op.file.name
                        ELSE op.file.name]

\* The path upload probes when overwrite is not set.
ProbePath(file, root) == file.name

\* upload(file, overwrite) up to its return: the chain it starts.
Upload(file, overwrite) ==
    LET op == [NewOp("upload", "upload") EXCEPT
                 !.file = file, !.overwrite = overwrite]
    IN  IF TooBig(file)
          THEN Reject(op, "Cannot upload file (>15 MB)")
        ELSE IF overwrite
          THEN UploadRead(op, model.path)
        ELSE [op EXCEPT
                !.pc = "probe",
                !.calls = <<Call("contents", "get",
                                 ProbePath(file, model.path))>>]

UploadCall(file, overwrite) ==
    /\ Len(ops) < MaxOps
    /\ ops' = Append(ops, Upload(file, overwrite))
    /\ UNCHANGED <<model, selectedIndices, sessionIds>>
    /\ UNCHANGED arrayVars
    /\ UNCHANGED widgetVars
    /\ UNCHANGED resolveVars
    /\ UNCHANGED timerVars
    /\ UNCHANGED openVars
    /\ UNCHANGED dragVars
    /\ UNCHANGED buttonVars

\* The probe resolves: an entry is there, and upload throws.
ProbeFound(i) ==
    /\ ops[i].kind = "upload" /\ ops[i].pc = "probe"
    /\ ProbePath(ops[i].file, model.path) \in ServerPaths
    /\ ops' = [ops EXCEPT ![i] = Reject(@, "already exists")]
    /\ UNCHANGED <<model, selectedIndices, sessionIds>>
    /\ UNCHANGED arrayVars
    /\ UNCHANGED widgetVars
    /\ UNCHANGED resolveVars
    /\ UNCHANGED timerVars
    /\ UNCHANGED openVars
    /\ UNCHANGED dragVars
    /\ UNCHANGED buttonVars

\* The probe is rejected, whatever the reason: _upload(file) runs.
ProbeRejected(i) ==
    /\ ops[i].kind = "upload" /\ ops[i].pc = "probe"
    /\ ops' = [ops EXCEPT ![i] = UploadRead(@, model.path)]
    /\ UNCHANGED <<model, selectedIndices, sessionIds>>
    /\ UNCHANGED arrayVars
    /\ UNCHANGED widgetVars
    /\ UNCHANGED resolveVars
    /\ UNCHANGED timerVars
    /\ UNCHANGED openVars
    /\ UNCHANGED dragVars
    /\ UNCHANGED buttonVars

\* file.name.indexOf('.ipynb') !== -1
IsNotebook(file) == Contains(file.name, ".ipynb")

\* The model handed to save.
SaveModel(op) ==
    [type |-> IF IsNotebook(op.file) THEN "notebook" ELSE "file",
     format |-> IF IsNotebook(op.file) THEN "json" ELSE "base64",
     name |-> op.file.name,
     path |-> op.path]

\* reader.onload: the content is parsed or encoded and save is called.  The
\* promise _upload returned is not touched.
ReaderLoad(i) ==
    /\ ops[i].kind = "upload" /\ ops[i].pc = "read"
    /\ ops' = [ops EXCEPT ![i].pc = "save",
                          ![i].calls = Append(@,
                              Call("contents", "save", SaveModel(ops[i])))]
    /\ UNCHANGED <<model, selectedIndices, sessionIds>>
    /\ UNCHANGED arrayVars
    /\ UNCHANGED widgetVars
    /\ UNCHANGED resolveVars
    /\ UNCHANGED timerVars
    /\ UNCHANGED openVars
    /\ UNCHANGED dragVars
    /\ UNCHANGED buttonVars

\* reader.onload of a notebook whose text is no JSON, or reader.onerror:
\* the handler throws, nothing is saved and nothing settles the promise.
ReaderThrows(i) ==
    /\ ops[i].kind = "upload" /\ ops[i].pc = "read"
    /\ ops' = [ops EXCEPT ![i].pc = "done",
                          ![i].error = "Failed to upload"]
    /\ UNCHANGED <<model, selectedIndices, sessionIds>>
    /\ UNCHANGED arrayVars
    /\ UNCHANGED widgetVars
    /\ UNCHANGED resolveVars
    /\ UNCHANGED timerVars
    /\ UNCHANGED openVars
    /\ UNCHANGED dragVars
    /\ UNCHANGED buttonVars

\* What the promise of upload becomes when save has resolved: the handler
\* returns the promise of save to the reader, and neither resolve nor reject
\* of the promise _upload returned is ever called.
SavedPromise(op) == op.promise

\* save resolves with the saved model.
SaveDone(i) ==
    /\ ops[i].kind = "upload" /\ ops[i].pc = "save"
    /\ ops' = [ops EXCEPT ![i].pc = "done",
                          ![i].contents = SaveModel(ops[i]),
                          ![i].promise = SavedPromise(ops[i])]
    /\ UNCHANGED <<model, selectedIndices, sessionIds>>
    /\ UNCHANGED arrayVars
    /\ UNCHANGED widgetVars
    /\ UNCHANGED resolveVars
    /\ UNCHANGED timerVars
    /\ UNCHANGED openVars
    /\ UNCHANGED dragVars
    /\ UNCHANGED buttonVars

\* save is rejected.
SaveFail(i) ==
    /\ ops[i].kind = "upload" /\ ops[i].pc = "save"
    /\ ops' = [ops EXCEPT ![i].pc = "done", ![i].error = "save failed"]
    /\ UNCHANGED <<model, selectedIndices, sessionIds>>
    /\ UNCHANGED arrayVars
    /\ UNCHANGED widgetVars
    /\ UNCHANGED resolveVars
    /\ UNCHANGED timerVars
    /\ UNCHANGED openVars
    /\ UNCHANGED dragVars
    /\ UNCHANGED buttonVars

(***************************************************************************)
(* The upload control: _handleUploadEvent of FileButtons.                  *)
(***************************************************************************)
\* The lists of files a change event of the input can carry.
RECURSIVE FileLists(_)
FileLists(n) ==
    IF n = 0 THEN { <<>> }
    ELSE LET shorter == FileLists(n - 1)
         IN  shorter \cup
             { Append(fs, f) : fs \in { l \in shorter : Len(l) = n - 1 },
                               f \in UploadFiles }

UploadEvents == FileLists(MaxFiles) \ { <<>> }

\* The variable file of the loop, declared with var, as a handler that runs
\* after the loop sees it: the last file of the list.
LoopFile(k) == files[Len(files)]

\* error.message.indexOf('already exists') !== -1
IsConflict(error) == Contains(error, "already exists")

\* The loop of _handleUploadEvent: upload(file) is called for every file and
\* the promise with its catch handler is pushed; then Promise.all is called.
HandleUploadEvent(fs) ==
    /\ files = <<>>
    /\ files' = fs
    /\ ops' = ops \o [k \in 1..Len(fs) |-> Upload(fs[k], FALSE)]
    /\ promises' = [k \in 1..Len(fs) |->
                      [upload |-> Len(ops) + k, handler |-> "waiting",
                       again |-> 0, state |-> "pending"]]
    /\ all' = "pending"
    /\ UNCHANGED <<refreshCalls, errorMessages>>
    /\ UNCHANGED <<model, selectedIndices, sessionIds>>
    /\ UNCHANGED arrayVars
    /\ UNCHANGED widgetVars
    /\ UNCHANGED resolveVars
    /\ UNCHANGED timerVars
    /\ UNCHANGED openVars
    /\ UNCHANGED dragVars

\* The promise of upload(file) has settled.  Resolved, it passes the catch
\* handler by.  Rejected, the handler runs: for 'already exists' it shows
\* the dialog; for any other error it returns nothing, which resolves the
\* promise pushed.
UploadSettled(k) ==
    /\ promises[k].handler = "waiting"
    /\ ops[promises[k].upload].promise # "pending"
    /\ promises' = [promises EXCEPT ![k] =
          IF ops[promises[k].upload].promise = "resolved"
            THEN [@ EXCEPT !.handler = "skipped", !.state = "resolved"]
          ELSE IF IsConflict(ops[promises[k].upload].error)
            THEN [@ EXCEPT !.handler = "dialog"]
          ELSE [@ EXCEPT !.handler = "returned", !.state = "resolved"]]
    /\ UNCHANGED <<files, all, refreshCalls, errorMessages>>
    /\ UNCHANGED viewModelVars
    /\ UNCHANGED arrayVars
    /\ UNCHANGED widgetVars
    /\ UNCHANGED resolveVars
    /\ UNCHANGED timerVars
    /\ UNCHANGED openVars
    /\ UNCHANGED dragVars

\* The dialog closes.  With OK, upload(file, true) is called, with the
\* variable file as it is by then; with another button the handler returns
\* nothing.
DialogCloses(k, button) ==
    /\ promises[k].handler = "dialog"
    /\ IF button = "OK"
         THEN /\ ops' = Append(ops, Upload(LoopFile(k), TRUE))
              /\ promises' = [promises EXCEPT ![k].handler = "again",
                                              ![k].again = Len(ops) + 1]
         ELSE /\ ops' = ops
              /\ promises' = [promises EXCEPT ![k].handler = "returned",
                                              ![k].state = "resolved"]
    /\ UNCHANGED <<files, all, refreshCalls, errorMessages>>
    /\ UNCHANGED <<model, selectedIndices, sessionIds>>
    /\ UNCHANGED arrayVars
    /\ UNCHANGED widgetVars
    /\ UNCHANGED resolveVars
    /\ UNCHANGED timerVars
    /\ UNCHANGED openVars
    /\ UNCHANGED dragVars

\* The promise of upload(file, true) has settled: the promise pushed
\* settles the same way.
AgainSettled(k) ==
    /\ promises[k].handler = "again"
    /\ ops[promises[k].again].promise # "pending"
    /\ promises' = [promises EXCEPT
          ![k].handler = "returned",
          ![k].state = ops[promises[k].again].promise]
    /\ UNCHANGED <<files, all, refreshCalls, errorMessages>>
    /\ UNCHANGED viewModelVars
    /\ UNCHANGED arrayVars
    /\ UNCHANGED widgetVars
    /\ UNCHANGED resolveVars
    /\ UNCHANGED timerVars
    /\ UNCHANGED openVars
    /\ UNCHANGED dragVars

\* Promise.all(promises) settles: rejected as soon as one promise is
\* rejected, for which the error is shown; resolved when every promise is
\* resolved, for which the model is refreshed.
AllSettled ==
    /\ all = "pending"
    /\ \/ \E k \in 1..Len(promises) :
            /\ promises[k].state = "rejected"
            /\ all' = "rejected"
            /\ errorMessages' = Append(errorMessages,
                  [title |-> "Upload Error",
                   error |-> ops[promises[k].again].error])
            /\ UNCHANGED refreshCalls
       \/ /\ \A k \in 1..Len(promises) : promises[k].state = "resolved"
          /\ all' = "resolved"
          /\ refreshCalls' = refreshCalls + 1
          /\ UNCHANGED errorMessages
    /\ UNCHANGED <<files, promises>>
    /\ UNCHANGED viewModelVars
    /\ UNCHANGED arrayVars
    /\ UNCHANGED widgetVars
    /\ UNCHANGED resolveVars
    /\ UNCHANGED timerVars
    /\ UNCHANGED openVars
    /\ UNCHANGED dragVars

(***************************************************************************)
(* The selected indices.                                                   *)
(***************************************************************************)
\* The elements of a set of numbers in ascending order.
RECURSIVE Ascending(_)
Ascending(S) ==
    IF S = {} THEN <<>>
    ELSE LET m == CHOOSE x \in S : \A y \in S : x <= y
         IN  <<m>> \o Ascending(S \ {m})

\* The number of items of the model; the model the constructor makes has
\* no content.
ItemCount == IF "content" \in DOMAIN model THEN Len(model.content) ELSE 0

\* The selections the renderer of the items passes: the first row, the
\* last row, both or none.
SelectionInputs ==
    { Ascending(S) : S \in SUBSET ({0, ItemCount - 1} \cap (0..(ItemCount - 1))) }

\* set selected(value): a copy of value is stored.
SetSelected(value) ==
    /\ selectedIndices' = value
    /\ UNCHANGED <<model, sessionIds, ops>>
    /\ UNCHANGED arrayVars
    /\ UNCHANGED widgetVars
    /\ UNCHANGED resolveVars
    /\ UNCHANGED timerVars
    /\ UNCHANGED openVars
    /\ UNCHANGED dragVars
    /\ UNCHANGED buttonVars

(***************************************************************************)
(* The accessors items and selected, on arrays held by reference.  Items   *)
(* are written as numbers here.                                            *)
(***************************************************************************)
CallerValues == { <<>>, <<0>>, <<0, 1>> }

\* array.slice(): a new array with the elements of the array.
Slice(ref) == [arrays |-> Append(arrays, arrays[ref]), ref |-> Len(arrays) + 1]

\* The setter without the slice: the caller's array is kept.
SelectedSetterAlias(value) == [arrays |-> arrays, ref |-> value]

\* set selected(value): this._selectedIndices = value.slice()
SelectedSetter(value) == Slice(value)

\* get selected(): this._selectedIndices.slice()
SelectedGetter == Slice(selectedRef)

\* get items(): this._model.content.slice()
ItemsGetter == Slice(contentRef)

\* A caller builds an array of indices.
CallerCreates(value) ==
    /\ Len(arrays) < MaxArrays
    /\ arrays' = Append(arrays, value)
    /\ callerRefs' = callerRefs \cup {Len(arrays) + 1}
    /\ UNCHANGED <<selectedRef, contentRef, passedRef, returnedRefs, mutatedRefs>>
    /\ UNCHANGED viewModelVars
    /\ UNCHANGED widgetVars
    /\ UNCHANGED resolveVars
    /\ UNCHANGED timerVars
    /\ UNCHANGED openVars
    /\ UNCHANGED dragVars
    /\ UNCHANGED buttonVars

\* A caller sets selected from an array it holds.
SetSelectedFrom(r) ==
    /\ r \in callerRefs
    /\ Len(arrays) < MaxArrays
    /\ arrays' = SelectedSetter(r).arrays
    /\ selectedRef' = SelectedSetter(r).ref
    /\ passedRef' = r
    /\ UNCHANGED <<contentRef, callerRefs, returnedRefs, mutatedRefs>>
    /\ UNCHANGED viewModelVars
    /\ UNCHANGED widgetVars
    /\ UNCHANGED resolveVars
    /\ UNCHANGED timerVars
    /\ UNCHANGED openVars
    /\ UNCHANGED dragVars
    /\ UNCHANGED buttonVars

\* A caller reads selected and keeps the array it gets.
GetSelected ==
    /\ Len(arrays) < MaxArrays
    /\ arrays' = SelectedGetter.arrays
    /\ callerRefs' = callerRefs \cup {SelectedGetter.ref}
    /\ returnedRefs' = returnedRefs \cup {SelectedGetter.ref}
    /\ UNCHANGED <<selectedRef, contentRef, passedRef, mutatedRefs>>
    /\ UNCHANGED viewModelVars
    /\ UNCHANGED widgetVars
    /\ UNCHANGED resolveVars
    /\ UNCHANGED timerVars
    /\ UNCHANGED openVars
    /\ UNCHANGED dragVars
    /\ UNCHANGED buttonVars

\* A caller reads items and keeps the array it gets.
GetItems ==
    /\ contentRef # 0
    /\ Len(arrays) < MaxArrays
    /\ arrays' = ItemsGetter.arrays
    /\ callerRefs' = callerRefs \cup {ItemsGetter.ref}
    /\ returnedRefs' = returnedRefs \cup {ItemsGetter.ref}
    /\ UNCHANGED <<selectedRef, contentRef, passedRef, mutatedRefs>>
    /\ UNCHANGED viewModelVars
    /\ UNCHANGED widgetVars
    /\ UNCHANGED resolveVars
    /\ UNCHANGED timerVars
    /\ UNCHANGED openVars
    /\ UNCHANGED dragVars
    /\ UNCHANGED buttonVars

\* open replaces this._model by a fetched directory of two items.
ContentReplaced ==
    /\ Len(arrays) < MaxArrays
    /\ arrays' = Append(arrays, <<0, 1>>)
    /\ contentRef' = Len(arrays) + 1
    /\ UNCHANGED <<selectedRef, callerRefs, passedRef, returnedRefs, mutatedRefs>>
    /\ UNCHANGED viewModelVars
    /\ UNCHANGED widgetVars
    /\ UNCHANGED resolveVars
    /\ UNCHANGED timerVars
    /\ UNCHANGED openVars
    /\ UNCHANGED dragVars
    /\ UNCHANGED buttonVars

\* A caller pushes onto an array it holds.
CallerPushes(r) ==
    /\ r \in callerRefs
    /\ Len(arrays[r]) < MaxLength
    /\ arrays' = [arrays EXCEPT ![r] = Append(@, Len(@))]
    /\ mutatedRefs' = mutatedRefs \cup {r}
    /\ UNCHANGED <<selectedRef, contentRef, callerRefs, passedRef, returnedRefs>>
    /\ UNCHANGED viewModelVars
    /\ UNCHANGED widgetVars
    /\ UNCHANGED resolveVars
    /\ UNCHANGED timerVars
    /\ UNCHANGED openVars
    /\ UNCHANGED dragVars
    /\ UNCHANGED buttonVars

\* A caller pops from an array it holds.
CallerPops(r) ==
    /\ r \in callerRefs
    /\ Len(arrays[r]) > 0
    /\ arrays' = [arrays EXCEPT ![r] = SubSeq(@, 1, Len(@) - 1)]
    /\ mutatedRefs' = mutatedRefs \cup {r}
    /\ UNCHANGED <<selectedRef, contentRef, callerRefs, passedRef, returnedRefs>>
    /\ UNCHANGED viewModelVars
    /\ UNCHANGED widgetVars
    /\ UNCHANGED resolveVars
    /\ UNCHANGED timerVars
    /\ UNCHANGED openVars
    /\ UNCHANGED dragVars
    /\ UNCHANGED buttonVars

(***************************************************************************)
(* The FileBrowser widget (src/src/index.ts): the contents it lists.  The  *)
(* root lists a directory and four files, d lists a directory and a        *)
(* notebook, d/e lists nothing.                                            *)
(***************************************************************************)
BrowserRoot ==
    << Entry("d", "d", "directory"),
       Entry("f", "f", "file"),
       Entry("g", "g", "file"),
       Entry("h", "h", "file"),
       Entry("a.ipynb", "a.ipynb", "notebook") >>

BrowserD ==
    << Entry("e", "d/e", "directory"),
       Entry("b.ipynb", "d/b.ipynb", "notebook") >>

\* model.content of what listContents(path) resolves with.
ListContents(p) ==
    IF p = "" THEN BrowserRoot
    ELSE IF p = "d" THEN BrowserD
    ELSE <<>>

(***************************************************************************)
(* The view model of index.ts: refresh, set path and open.                 *)
(***************************************************************************)
\* refresh(): listContents(this._path) is called.
Refresh(p) == refreshing \cup {p}

\* What open() does for the selected indices from position k on, given the
\* path and the calls made so far: a directory sets the path, which
\* refreshes; a file or notebook is fetched with get; an index that is no
\* position of the items makes item.type throw, which ends the loop.
RECURSIVE OpenSelected(_, _)
OpenSelected(k, acc) ==
    IF k > Len(browserSelected) THEN acc
    ELSE LET index == browserSelected[k]
         IN  IF index >= Len(browserItems)
               THEN [acc EXCEPT !.threw = TRUE]
             ELSE LET item == browserItems[index + 1]
                  IN  IF item.type = "directory"
                        THEN OpenSelected(k + 1,
                               [acc EXCEPT !.path = item.path,
                                           !.refreshing = @ \cup {item.path}])
                        ELSE OpenSelected(k + 1,
                               [acc EXCEPT !.gets = @ \cup {item.path}])

\* The callback of listContents in refresh: the items are replaced and the
\* opened signal is emitted with the directory, for which the widget's
\* _onOpened calls update().
ListContentsDone(p) ==
    /\ p \in refreshing
    /\ refreshing' = refreshing \ {p}
    /\ browserItems' = ListContents(p)
    /\ updateRequested' = TRUE
    /\ lastEvent' = NoEvent
    /\ UNCHANGED <<browserPath, browserSelected, nodes>>
    /\ UNCHANGED viewModelVars
    /\ UNCHANGED arrayVars
    /\ UNCHANGED resolveVars
    /\ UNCHANGED timerVars
    /\ UNCHANGED openVars
    /\ UNCHANGED dragVars
    /\ UNCHANGED buttonVars

\* listContents is rejected: refresh has no handler for it.
ListContentsFail(p) ==
    /\ p \in refreshing
    /\ refreshing' = refreshing \ {p}
    /\ lastEvent' = NoEvent
    /\ UNCHANGED <<browserPath, browserItems, browserSelected, nodes,
                   updateRequested>>
    /\ UNCHANGED viewModelVars
    /\ UNCHANGED arrayVars
    /\ UNCHANGED resolveVars
    /\ UNCHANGED timerVars
    /\ UNCHANGED openVars
    /\ UNCHANGED dragVars
    /\ UNCHANGED buttonVars

(***************************************************************************)
(* The widget: attach, update and the handlers of click and dblclick.      *)
(***************************************************************************)
\* onAfterAttach: the model is refreshed.
AfterAttach ==
    /\ refreshing' = Refresh(browserPath)
    /\ lastEvent' = NoEvent
    /\ UNCHANGED <<browserPath, browserItems, browserSelected, nodes,
                   updateRequested>>
    /\ UNCHANGED viewModelVars
    /\ UNCHANGED arrayVars
    /\ UNCHANGED resolveVars
    /\ UNCHANGED timerVars
    /\ UNCHANGED openVars
    /\ UNCHANGED dragVars
    /\ UNCHANGED buttonVars

\* updateItemNode: node.className = ROW_CLASS, which drops jp-mod-selected.
UpdateItemNode(node) == FALSE

\* onUpdateRequest: one node per item, each brought up to date.
UpdateRequest ==
    /\ updateRequested
    /\ updateRequested' = FALSE
    /\ nodes' = [k \in 1..Len(browserItems) |->
                   UpdateItemNode(IF k <= Len(nodes) THEN nodes[k] ELSE FALSE)]
    /\ lastEvent' = NoEvent
    /\ UNCHANGED <<browserPath, browserItems, browserSelected, refreshing>>
    /\ UNCHANGED viewModelVars
    /\ UNCHANGED arrayVars
    /\ UNCHANGED resolveVars
    /\ UNCHANGED timerVars
    /\ UNCHANGED openVars
    /\ UNCHANGED dragVars
    /\ UNCHANGED buttonVars

\* Math.abs
Abs(x) == IF x < 0 THEN -x ELSE x

\* The loop that looks for the "nearest selected" row, from row i on.
RECURSIVE NearestFrom(_, _, _, _)
NearestFrom(ns, index, i, nearestIndex) ==
    IF i >= Len(ns) THEN nearestIndex
    ELSE IF i = index THEN NearestFrom(ns, index, i + 1, nearestIndex)
    ELSE IF ~ns[i + 1] THEN NearestFrom(ns, index, i + 1, nearestIndex)
    ELSE IF nearestIndex = -1 THEN NearestFrom(ns, index, i + 1, i)
    ELSE IF Abs(index - i) < Abs(nearestIndex - i)
      THEN NearestFrom(ns, index, i + 1, i)
    ELSE NearestFrom(ns, index, i + 1, nearestIndex)

\* The default with the last row instead of the first.
NearestOrLast(ns, nearestIndex) ==
    IF nearestIndex = -1 THEN Len(ns) - 1 ELSE nearestIndex

\* if (nearestIndex === -1) nearestIndex = 0
NearestOrFirst(ns, nearestIndex) ==
    IF nearestIndex = -1 THEN 0 ELSE nearestIndex

\* The rows between the nearest selected row and the clicked row get
\* the selected class.
SelectBetween(ns, nearestIndex, index) ==
    [k \in 1..Len(ns) |->
       \/ ns[k]
       \/ nearestIndex >= k - 1 /\ index <= k - 1
       \/ nearestIndex <= k - 1 /\ index >= k - 1]

\* The shift branch of _evtClick.
ShiftSelect(ns, index) ==
    SelectBetween(ns,
                  NearestOrFirst(ns, NearestFrom(ns, index, 0, -1)), index)

\* The meta/ctrl branch: the selected class of the clicked row is toggled.
Toggle(ns, index) == [ns EXCEPT ![index + 1] = ~@]

\* The default branch with the other rows left as they are.
SelectAlso(ns, index) == [ns EXCEPT ![index + 1] = TRUE]

\* The default branch: the class is removed from every row and added to the
\* clicked one.
SelectOnly(ns, index) == [k \in 1..Len(ns) |-> k - 1 = index]

\* The indices of the rows that have the selected class, in row order.
RECURSIVE SelectedFrom(_, _)
SelectedFrom(ns, i) ==
    IF i >= Len(ns) THEN <<>>
    ELSE (IF ns[i + 1] THEN <<i>> ELSE <<>>) \o SelectedFrom(ns, i + 1)

SelectedRows(ns) == SelectedFrom(ns, 0)

\* The rows after a left click on row index with the given key held.
ClickRow(ns, index, key) ==
    IF key \in {"meta", "ctrl"} THEN Toggle(ns, index)
    ELSE IF key = "shift" THEN ShiftSelect(ns, index)
    ELSE SelectOnly(ns, index)

\* _handleCrumbEvent: the path the crumb i leads to; i is -1 when the
\* breadcrumb area is hit beside every crumb.
CrumbPath(p, i) ==
    IF i = 0 THEN ""
    ELSE Join(SpliceHead(Split(p), Len(Split(p)) - (4 - i)))

\* The crumbs updateCrumbs has put into the breadcrumb area.
CrumbsShown(p) ==
    {0} \cup (IF p # "" THEN {2} ELSE {})
        \cup (IF Len(Split(p)) = 2 THEN {3} ELSE {})
        \cup (IF Len(Split(p)) > 2 THEN {1, 3} ELSE {})

Keys == {"none", "ctrl", "meta", "shift"}

\* The click events the widget may receive: another button, a click on
\* nothing, a click in the breadcrumb area, a click on a row.
ClickEvents ==
    { [button |-> 2, hit |-> "row", index |-> 0, key |-> "none"],
      [button |-> 0, hit |-> "none", index |-> -1, key |-> "none"] }
    \cup { [button |-> 0, hit |-> "crumb", index |-> i, key |-> "none"] :
             i \in CrumbsShown(browserPath) \cup {-1} }
    \cup { [button |-> 0, hit |-> "row", index |-> i, key |-> k] :
             i \in 0..(Len(nodes) - 1), k \in Keys }

\* The event as lastEvent keeps it.
Handled(type, e, gets, threw) ==
    [type |-> type, button |-> e.button, hit |-> e.hit, index |-> e.index,
     key |-> e.key, rows |-> SelectedRows(nodes), gets |-> gets,
     threw |-> threw]

\* _evtClick(event)
EvtClick(e) ==
    /\ lastEvent' = Handled("click", e, {}, FALSE)
    /\ IF e.button # 0 \/ e.hit = "none"
         THEN UNCHANGED <<browserPath, browserSelected, nodes, refreshing>>
       ELSE IF e.hit = "crumb"
         THEN /\ browserPath' = CrumbPath(browserPath, e.index)
              /\ refreshing' = Refresh(CrumbPath(browserPath, e.index))
              /\ UNCHANGED <<browserSelected, nodes>>
       ELSE /\ e.index < Len(nodes)
            /\ nodes' = ClickRow(nodes, e.index, e.key)
            /\ browserSelected' = SelectedRows(ClickRow(nodes, e.index, e.key))
            /\ UNCHANGED <<browserPath, refreshing>>
    /\ UNCHANGED <<browserItems, updateRequested>>
    /\ UNCHANGED viewModelVars
    /\ UNCHANGED arrayVars
    /\ UNCHANGED resolveVars
    /\ UNCHANGED timerVars
    /\ UNCHANGED openVars
    /\ UNCHANGED dragVars
    /\ UNCHANGED buttonVars

\* The double clicks the widget may receive.
DblClickEvents ==
    { [button |-> b, hit |-> IF i = -1 THEN "none" ELSE "row",
       index |-> i, key |-> "none"] :
         b \in {0, 2}, i \in (-1)..(Len(nodes) - 1) }

\* _evtDblClick(event): a left double click on a row opens the selected
\* items.
EvtDblClick(e) ==
    /\ IF e.button # 0 \/ e.index = -1
         THEN /\ lastEvent' = Handled("dblclick", e, {}, FALSE)
              /\ UNCHANGED <<browserPath, refreshing>>
       ELSE LET done == OpenSelected(1, [path |-> browserPath,
                                         refreshing |-> refreshing,
                                         gets |-> {},
                                         threw |-> FALSE])
            IN  /\ lastEvent' = Handled("dblclick", e, done.gets, done.threw)
                /\ browserPath' = done.path
                /\ refreshing' = done.refreshing
    /\ UNCHANGED <<browserItems, browserSelected, nodes, updateRequested>>
    /\ UNCHANGED viewModelVars
    /\ UNCHANGED arrayVars
    /\ UNCHANGED resolveVars
    /\ UNCHANGED timerVars
    /\ UNCHANGED openVars
    /\ UNCHANGED dragVars
    /\ UNCHANGED buttonVars

(***************************************************************************)
(* The drag controller: a press arms it, a move past the threshold starts  *)
(* a drag, a release ends the gesture.                                     *)
(***************************************************************************)
\* The displacement, in pixels, a press has to exceed to become a drag.
DragThreshold == 5

\* The coordinates mouse events come with.
Coords == {0, DragThreshold, DragThreshold + 1}

\* The move at the threshold already counted as a drag.
CrossedAtThreshold(data, x, y) ==
    \/ Abs(x - data.pressX) >= DragThreshold
    \/ Abs(y - data.pressY) >= DragThreshold

\* The displacement from the press exceeds the threshold.
Crossed(data, x, y) ==
    \/ Abs(x - data.pressX) > DragThreshold
    \/ Abs(y - data.pressY) > DragThreshold

\* The paths of the rows given.
RECURSIVE PathsOf(_)
PathsOf(rows) ==
    IF rows = <<>> THEN <<>>
    ELSE <<browserItems[Head(rows) + 1].path>> \o PathsOf(Tail(rows))

\* The payload of a drag: the selected rows when the row pressed is one of
\* them, and the row pressed alone when it is not.
DragPayload(index) ==
    IF nodes[index + 1] THEN PathsOf(SelectedRows(nodes))
    ELSE <<browserItems[index + 1].path>>

\* The places a drag may be dropped on: a row, the empty space of the
\* widget, or an acceptor outside the widget.
DropTargets ==
    { [hit |-> "row", index |-> i] : i \in 0..(Len(nodes) - 1) }
    \cup { [hit |-> "none", index |-> -1], [hit |-> "external", index |-> -1] }

\* A drop is taken by a directory row and by an acceptor outside.
ValidDrop(target) ==
    \/ target.hit = "external"
    \/ /\ target.hit = "row"
       /\ browserItems[target.index + 1].type = "directory"

\* Button down on a row.
EvtMousedown(index, x, y) ==
    /\ gesture = "idle"
    /\ Len(requests) < MaxRequests
    /\ index < Len(nodes)
    /\ gesture' = "armed"
    /\ dragData' = [index |-> index, pressX |-> x, pressY |-> y]
    /\ pointer' = [x |-> x, y |-> y]
    /\ UNCHANGED <<payload, requests>>
    /\ UNCHANGED widgetVars
    /\ UNCHANGED viewModelVars
    /\ UNCHANGED arrayVars
    /\ UNCHANGED resolveVars
    /\ UNCHANGED timerVars
    /\ UNCHANGED openVars
    /\ UNCHANGED buttonVars

\* The pointer moves with the button down: past the threshold the drag
\* starts, with its payload; during a drag nothing but the pointer changes.
EvtMousemove(x, y) ==
    /\ gesture # "idle"
    /\ pointer' = [x |-> x, y |-> y]
    /\ IF gesture = "armed" /\ Crossed(dragData, x, y)
         THEN /\ gesture' = "dragging"
              /\ payload' = DragPayload(dragData.index)
         ELSE UNCHANGED <<gesture, payload>>
    /\ UNCHANGED <<dragData, requests>>
    /\ UNCHANGED widgetVars
    /\ UNCHANGED viewModelVars
    /\ UNCHANGED arrayVars
    /\ UNCHANGED resolveVars
    /\ UNCHANGED timerVars
    /\ UNCHANGED openVars
    /\ UNCHANGED buttonVars

\* Button up while armed: a click on the row pressed, with the key held.
MouseupClick(key) ==
    /\ gesture = "armed"
    /\ gesture' = "idle"
    /\ dragData' = NoDragData
    /\ nodes' = ClickRow(nodes, dragData.index, key)
    /\ browserSelected' = SelectedRows(ClickRow(nodes, dragData.index, key))
    /\ UNCHANGED <<pointer, payload, requests>>
    /\ UNCHANGED <<browserPath, browserItems, refreshing, updateRequested,
                   lastEvent>>
    /\ UNCHANGED viewModelVars
    /\ UNCHANGED arrayVars
    /\ UNCHANGED resolveVars
    /\ UNCHANGED timerVars
    /\ UNCHANGED openVars
    /\ UNCHANGED buttonVars

\* Button up during a drag: a valid target gets a move request for the
\* payload, any other drop does nothing; the drag state is discarded.
MouseupDrop(target) ==
    /\ gesture = "dragging"
    /\ gesture' = "idle"
    /\ dragData' = NoDragData
    /\ payload' = <<>>
    /\ requests' = IF ValidDrop(target)
                     THEN Append(requests,
                            [paths |-> payload, target |-> target])
                     ELSE requests
    /\ UNCHANGED pointer
    /\ UNCHANGED widgetVars
    /\ UNCHANGED viewModelVars
    /\ UNCHANGED arrayVars
    /\ UNCHANGED resolveVars
    /\ UNCHANGED timerVars
    /\ UNCHANGED openVars
    /\ UNCHANGED buttonVars

\* The drag leaves or is cancelled: the drag state is discarded.
DragCancel ==
    /\ gesture = "dragging"
    /\ gesture' = "idle"
    /\ dragData' = NoDragData
    /\ payload' = <<>>
    /\ UNCHANGED <<pointer, requests>>
    /\ UNCHANGED widgetVars
    /\ UNCHANGED viewModelVars
    /\ UNCHANGED arrayVars
    /\ UNCHANGED resolveVars
    /\ UNCHANGED timerVars
    /\ UNCHANGED openVars
    /\ UNCHANGED buttonVars

\* The widget showing the directory d, its rows rendered and none selected.
InitDrag ==
    /\ model = [path |-> "", name |-> "", type |-> "directory"]
    /\ selectedIndices = <<>>
    /\ sessionIds = <<>>
    /\ ops = <<>>
    /\ arrays = << <<>> >>
    /\ selectedRef = 1
    /\ contentRef = 0
    /\ callerRefs = {}
    /\ passedRef = 0
    /\ returnedRefs = {}
    /\ mutatedRefs = {}
    /\ browserPath = "d"
    /\ browserItems = ListContents("d")
    /\ browserSelected = <<>>
    /\ nodes = [i \in 1..Len(ListContents("d")) |-> FALSE]
    /\ refreshing = {}
    /\ updateRequested = FALSE
    /\ lastEvent = NoEvent
    /\ resolveRoot = ""
    /\ resolveInput = "."
    /\ resolved = <<"">>
    /\ files = <<>>
    /\ promises = <<>>
    /\ all = "none"
    /\ refreshCalls = 0
    /\ errorMessages = <<>>
    /\ gesture = "idle"
    /\ dragData = NoDragData
    /\ pointer = [x |-> 0, y |-> 0]
    /\ payload = <<>>
    /\ requests = <<>>
    /\ NoTimer
    /\ NoWidgetOpen

(***************************************************************************)
(* FileBrowserWidget.open(): the selected items are opened.                *)
(***************************************************************************)
\* The sorted lists of up to n items: the k-th item is named nk and is a
\* directory, a file or a notebook.
RECURSIVE ItemLists(_)
ItemLists(n) ==
    IF n = 0 THEN { <<>> }
    ELSE LET shorter == ItemLists(n - 1)
         IN  shorter \cup
             { Append(l, Entry(name, name, t)) :
                 l \in { x \in shorter : Len(x) = n - 1 },
                 name \in { <<"n1", "n2", "n3", "n4">>[n] },
                 t \in {"directory", "file", "notebook"} }

\* The loop of open() from the k-th item on; acc holds foundDir, the calls
\* of cd and the items emitted so far.
RECURSIVE OpenItems(_, _, _, _)
OpenItems(items, selection, k, acc) ==
    IF k > Len(items) THEN acc
    ELSE LET item == items[k]
         IN  IF item.name \notin selection
               THEN OpenItems(items, selection, k + 1, acc)
             ELSE IF item.type = "directory" /\ ~acc.foundDir
               THEN OpenItems(items, selection, k + 1,
                      [acc EXCEPT !.foundDir = TRUE,
                                  !.cd = Append(@, item.name)])
             ELSE OpenItems(items, selection, k + 1,
                    [acc EXCEPT !.openRequested = Append(@, item)])

\* A widget whose model has some items, some of them selected, and on which
\* open() has not been called yet.
InitOpen ==
    /\ InitBrowser
    /\ resolveRoot = ""
    /\ resolveInput = "."
    /\ resolved = <<"">>
    /\ sortedItems \in ItemLists(MaxItems)
    /\ selectedNames \in
          SUBSET { sortedItems[k].name : k \in 1..Len(sortedItems) }
    /\ opened = <<>>

\* open()
WidgetOpen ==
    /\ opened = <<>>
    /\ opened' = << OpenItems(sortedItems, selectedNames, 1,
                      [foundDir |-> FALSE, cd |-> <<>>,
                       openRequested |-> <<>>]) >>
    /\ UNCHANGED <<sortedItems, selectedNames>>
    /\ UNCHANGED viewModelVars
    /\ UNCHANGED arrayVars
    /\ UNCHANGED widgetVars
    /\ UNCHANGED resolveVars
    /\ UNCHANGED timerVars
    /\ UNCHANGED buttonVars
    /\ UNCHANGED dragVars

(***************************************************************************)
(* Calls of normalizePath: the roots and the paths it is called with.      *)
(***************************************************************************)
\* The roots of up to n segments, each segment a or b.
RECURSIVE RootsOf(_)
RootsOf(n) ==
    IF n = 0 THEN {""}
    ELSE RootsOf(n - 1)
           \cup { Combine(r, seg) : r \in RootsOf(n - 1), seg \in {"a", "b"} }

\* The roots, one of them with a trailing '/'.
ResolveRoots == RootsOf(MaxDepth) \cup {"a/"}

\* '../' k times
RECURSIVE Ups(_)
Ups(k) == IF k = 0 THEN "" ELSE "../" \o Ups(k - 1)

\* Path fragments without '.', '..' or a '/' at either end.
PlainFragments == {"c", "x/y"}

\* The paths: '.', and a fragment or nothing after nothing, '/', './' or
\* a chain of '../', with and without a trailing '/'.
ResolveInputs ==
    {"."} \cup
    { pre \o frag \o trail :
        pre \in {"", "/", "./"} \cup { Ups(k) : k \in 1..MaxUp },
        frag \in PlainFragments \cup {""},
        trail \in {"", "/"} }

\* A call of normalizePath that has not returned yet.
InitResolve ==
    /\ InitBrowser
    /\ NoWidgetOpen
    /\ resolveRoot \in ResolveRoots
    /\ resolveInput \in ResolveInputs
    /\ resolved = <<>>

\* The call returns.
NormalizePathReturns ==
    /\ resolved = <<>>
    /\ resolved' = <<normalizePath(resolveRoot, resolveInput)>>
    /\ UNCHANGED <<resolveRoot, resolveInput>>
    /\ UNCHANGED viewModelVars
    /\ UNCHANGED timerVars
    /\ UNCHANGED arrayVars
    /\ UNCHANGED widgetVars
    /\ UNCHANGED buttonVars
    /\ UNCHANGED dragVars
    /\ UNCHANGED openVars

(***************************************************************************)
(* The auto-refresh of FileBrowserWidget (browser.ts): refresh(), the      *)
(* handler of the model's refreshed signal, the timer callback and         *)
(* dispose().                                                              *)
(***************************************************************************)

\* The duration of auto-refresh in ms.
REFRESH_DURATION == 30000

\* clearTimeout(id): the timer of that id, if it is still armed, is
\* cancelled; an id that names no armed timer (-1, or a timer that has
\* fired) is ignored.
ClearTimeout(armed, id) == armed \ {id}

\* refresh(): this._model.refresh() is called; on a disposed widget
\* this._model is null and the call throws.
WidgetRefresh ==
    /\ widgetModel = "model"
    /\ inFlight < MaxInFlight
    /\ inFlight' = inFlight + 1
    /\ UNCHANGED <<widgetModel, connected, timeoutId, timers, timerCount,
                   lastFire>>
    /\ UNCHANGED viewModelVars
    /\ UNCHANGED arrayVars
    /\ UNCHANGED widgetVars
    /\ UNCHANGED resolveVars
    /\ UNCHANGED openVars
    /\ UNCHANGED dragVars
    /\ UNCHANGED buttonVars

\* A refresh of the model settles: resolved, or rejected and then reported
\* by showErrorMessage.
RefreshSettles ==
    /\ inFlight > 0
    /\ inFlight' = inFlight - 1
    /\ UNCHANGED <<widgetModel, connected, timeoutId, timers, timerCount,
                   lastFire>>
    /\ UNCHANGED viewModelVars
    /\ UNCHANGED arrayVars
    /\ UNCHANGED widgetVars
    /\ UNCHANGED resolveVars
    /\ UNCHANGED openVars
    /\ UNCHANGED dragVars
    /\ UNCHANGED buttonVars

\* The model emits refreshed and _handleRefresh runs: the timer of
\* this._timeoutId is cleared and a new one is armed for REFRESH_DURATION.
HandleRefresh ==
    /\ connected
    /\ timerCount < MaxTimers
    /\ timerCount' = timerCount + 1
    /\ timeoutId' = timerCount + 1
    /\ timers' = ClearTimeout(timers, timeoutId) \cup {timerCount + 1}
    /\ UNCHANGED <<widgetModel, connected, inFlight, lastFire>>
    /\ UNCHANGED viewModelVars
    /\ UNCHANGED arrayVars
    /\ UNCHANGED widgetVars
    /\ UNCHANGED resolveVars
    /\ UNCHANGED openVars
    /\ UNCHANGED dragVars
    /\ UNCHANGED buttonVars

\* REFRESH_DURATION after it was armed a timer fires and its callback
\* calls this.refresh(), whatever has become of the widget.
TimerFires(id) ==
    /\ id \in timers
    /\ timers' = timers \ {id}
    /\ IF widgetModel = "model"
       THEN /\ inFlight < MaxInFlight
            /\ inFlight' = inFlight + 1
            /\ lastFire' = "refresh"
       ELSE /\ lastFire' = "threw"
            /\ UNCHANGED inFlight
    /\ UNCHANGED <<widgetModel, connected, timeoutId, timerCount>>
    /\ UNCHANGED viewModelVars
    /\ UNCHANGED arrayVars
    /\ UNCHANGED widgetVars
    /\ UNCHANGED resolveVars
    /\ UNCHANGED openVars
    /\ UNCHANGED dragVars
    /\ UNCHANGED buttonVars

\* dispose() of the widget: this._model = null, and Widget.dispose()
\* disconnects the widget from the signals it listens to.  this._timeoutId
\* is not looked at.
WidgetDispose ==
    /\ widgetModel = "model"
    /\ widgetModel' = "null"
    /\ connected' = FALSE
    /\ UNCHANGED <<timeoutId, timers, timerCount, inFlight, lastFire>>
    /\ UNCHANGED viewModelVars
    /\ UNCHANGED arrayVars
    /\ UNCHANGED widgetVars
    /\ UNCHANGED resolveVars
    /\ UNCHANGED openVars
    /\ UNCHANGED dragVars
    /\ UNCHANGED buttonVars

(***************************************************************************)
(* The next-state relations: the steps of open, of the calls handed to     *)
(* the contents manager, of upload, and of the selection.                  *)
(***************************************************************************)
NextOpen ==
    \/ \E input \in OpenInputs : OpenCall(input)
    \/ \E i \in 1..Len(ops) : OpenGetFail(i)
    \/ \E i \in 1..Len(ops) : OpenGetDone(i)
    \/ \E i \in 1..Len(ops) : ListRunningFail(i)
    \/ \E i \in 1..Len(ops), listing \in Listings : ListRunningDone(i, listing)
    \/ \E i \in 1..Len(ops), id \in {"s1", "s2", "s3"}, status \in Statuses :
          ConnectDone(i, id, status)
    \/ \E i \in 1..Len(ops), id \in {"s1", "s2", "s3"} : ConnectFail(i, id)

NextContents ==
    \/ \E r \in RenameInputs : RenameCall(r[1], r[2])
    \/ \E i \in 1..Len(ops) : RenameDone(i)
    \/ \E c \in CopyInputs : CopyCall(c[1], c[2])
    \/ \E input \in DeleteInputs : DeleteCall(input)
    \/ \E n \in NewUntitledInputs : NewUntitledCall(n[1], n[2])
    \/ \E i \in 1..Len(ops) : DelegateDone(i)
    \/ \E i \in 1..Len(ops) : ContentsFail(i)

NextUpload ==
    \/ \E file \in UploadFiles, overwrite \in BOOLEAN :
          UploadCall(file, overwrite)
    \/ \E i \in 1..Len(ops) : ProbeFound(i)
    \/ \E i \in 1..Len(ops) : ProbeRejected(i)
    \/ \E i \in 1..Len(ops) : ReaderLoad(i)
    \/ \E i \in 1..Len(ops) : ReaderThrows(i)
    \/ \E i \in 1..Len(ops) : SaveDone(i)
    \/ \E i \in 1..Len(ops) : SaveFail(i)

NextButtons ==
    \/ \E fs \in UploadEvents : HandleUploadEvent(fs)
    \/ \E k \in 1..Len(promises) : UploadSettled(k)
    \/ \E k \in 1..Len(promises), button \in {"OK", "Cancel"} :
          DialogCloses(k, button)
    \/ \E k \in 1..Len(promises) : AgainSettled(k)
    \/ AllSettled
    \/ \E i \in 1..Len(ops) : ProbeFound(i)
    \/ \E i \in 1..Len(ops) : ProbeRejected(i)
    \/ \E i \in 1..Len(ops) : ReaderLoad(i)
    \/ \E i \in 1..Len(ops) : ReaderThrows(i)
    \/ \E i \in 1..Len(ops) : SaveDone(i)
    \/ \E i \in 1..Len(ops) : SaveFail(i)

NextDrag ==
    \/ \E index \in 0..(Len(nodes) - 1), x \in Coords, y \in Coords :
          EvtMousedown(index, x, y)
    \/ \E x \in Coords, y \in Coords : EvtMousemove(x, y)
    \/ \E key \in Keys : MouseupClick(key)
    \/ \E target \in DropTargets : MouseupDrop(target)
    \/ DragCancel

NextSelect == \E value \in SelectionInputs : SetSelected(value)

NextArrays ==
    \/ \E value \in CallerValues : CallerCreates(value)
    \/ \E r \in 1..Len(arrays) : SetSelectedFrom(r)
    \/ GetSelected
    \/ GetItems
    \/ ContentReplaced
    \/ \E r \in 1..Len(arrays) : CallerPushes(r)
    \/ \E r \in 1..Len(arrays) : CallerPops(r)

NextWidget ==
    \/ AfterAttach
    \/ \E p \in refreshing : ListContentsDone(p)
    \/ \E p \in refreshing : ListContentsFail(p)
    \/ UpdateRequest
    \/ \E e \in ClickEvents : EvtClick(e)
    \/ \E e \in DblClickEvents : EvtDblClick(e)

\* Every call of the view model.
Next == NextOpen \/ NextContents \/ NextUpload \/ NextSelect

Spec == Init /\ [][Next]_vars

\* Directory changes, session recomputes and selections only.
SpecOpen == Init /\ [][NextOpen \/ NextSelect]_vars

\* open and dispose of the view model of browser.ts.
NextDispose == NextOpen \/ Dispose

SpecDispose == Init /\ [][NextDispose]_vars

\* The auto-refresh of the FileBrowserWidget of browser.ts.
NextTimer ==
    \/ WidgetRefresh
    \/ RefreshSettles
    \/ HandleRefresh
    \/ \E id \in 1..MaxTimers : TimerFires(id)
    \/ WidgetDispose

SpecTimer == Init /\ [][NextTimer]_vars

\* Uploads, among directory changes.
SpecUpload == Init /\ [][NextUpload \/ NextOpen]_vars

\* The same, with the event loop running: a reader that can fire its load
\* event and a request that can settle do so in the end.
SpecUploadFair == SpecUpload /\ WF_vars(NextUpload \/ NextOpen)

\* The accessors, with a caller that keeps and changes the arrays it
\* passes and gets.
SpecArrays == Init /\ [][NextArrays]_vars

\* The FileBrowser widget of index.ts and its view model.
SpecWidget == Init /\ [][NextWidget]_vars

\* One change event of the upload input, and the uploads it starts.
SpecButtons == Init /\ [][NextButtons]_vars

\* The same, with the event loop running: every handler, reader and request
\* that can go on does so in the end.
SpecButtonsFair == SpecButtons /\ WF_vars(NextButtons)

\* Gestures of the pointer on the rows of the directory d.
SpecDrag == InitDrag /\ [][NextDrag]_vars

\* Calls of FileBrowserWidget.open(), one per behaviour.
SpecWidgetOpen == InitOpen /\ [][WidgetOpen]_vars

\* Calls of normalizePath, one per behaviour.
SpecResolve == InitResolve /\ [][NormalizePathReturns]_vars

(***************************************************************************)
(* Properties of upload.                                                   *)
(***************************************************************************)
UploadOps == { i \in 1..Len(ops) : ops[i].kind = "upload" }

\* The calls of a given method a chain has made.
CallsOf(op, method) ==
    { k \in 1..Len(op.calls) : op.calls[k].method = method }

RejectedForSize(op) ==
    op.promise = "rejected" /\ op.error = "Cannot upload file (>15 MB)"

\* C1: an upload of a file of more than 15 * 1024 * 1024 bytes is rejected
\* and makes no call to the contents manager, in this and every later
\* state; an upload of a file at or under the ceiling is not rejected for
\* its size and goes on: without overwrite its first call is the probe,
\* with overwrite it is reading, saving or past the save, and has not probed.
C1_UploadSizeGate ==
    \A i \in UploadOps :
      IF ops[i].file.size > 15 * 1024 * 1024
      THEN RejectedForSize(ops[i]) /\ ops[i].calls = <<>>
      ELSE /\ ~RejectedForSize(ops[i])
           /\ ops[i].overwrite =>
                /\ ops[i].pc \in {"read", "save", "done"}
                /\ CallsOf(ops[i], "get") = {}
           /\ ~ops[i].overwrite =>
                /\ Len(ops[i].calls) >= 1
                /\ ops[i].calls[1] = Call("contents", "get", ops[i].file.name)

\* An oversized upload has been rejected and an upload at the ceiling has
\* gone on to its probe.
C1_Witness ==
    \E i, j \in UploadOps :
      /\ ops[i].file.size = 15 * 1024 * 1024 + 1
      /\ ops[i].promise = "rejected"
      /\ ops[j].file.size = 15 * 1024 * 1024
      /\ ops[j].pc = "probe"

\* C2: an upload of a file whose name exists on the service, without
\* overwrite, is rejected with 'already exists' as soon as the probe has
\* found the entry, and has saved nothing; with overwrite it makes no probe
\* and, once its save has resolved, its promise is resolved with the saved
\* model.
C2_OverwriteConflict ==
    \A i \in UploadOps :
      (ops[i].file.name \in ServerPaths /\ ~RejectedForSize(ops[i])) =>
        /\ (~ops[i].overwrite /\ ops[i].error = "already exists") =>
              /\ ops[i].promise = "rejected"
              /\ CallsOf(ops[i], "save") = {}
        /\ ops[i].overwrite =>
              /\ CallsOf(ops[i], "get") = {}
              /\ (ops[i].pc = "done" /\ ops[i].contents # Null) =>
                    ops[i].promise = "resolved"

\* The read of the file succeeded and save resolved with the saved model.
ReadAndSaved(i) ==
    /\ i \in UploadOps
    /\ CallsOf(ops[i], "save") # {}
    /\ ops[i].pc = "done"
    /\ ops[i].contents # Null

\* C20: an upload whose read succeeded and whose save resolved settles in
\* the end: from the state where save has resolved, the promise upload
\* returned leads to resolved, with the saved model, and does not stay
\* pending for ever.
C20_UploadSettles ==
    \A i \in 1..MaxOps :
      ReadAndSaved(i) ~>
        /\ i \in UploadOps
        /\ ops[i].promise = "resolved"
        /\ ops[i].contents = SaveModel(ops[i])

\* The read of the file failed: the handler of the reader threw.
ReadFailed(i) ==
    /\ i \in UploadOps
    /\ ops[i].pc = "done"
    /\ ops[i].error = "Failed to upload"

\* C21: an upload whose read of the file fails sends no save to the
\* contents manager, and its promise is rejected in the end, with the error
\* that names the file.
C21_ReadFailureRejects ==
    \A i \in 1..MaxOps :
      /\ [](ReadFailed(i) => CallsOf(ops[i], "save") = {})
      /\ ReadFailed(i) ~>
            /\ i \in UploadOps
            /\ ops[i].promise = "rejected"
            /\ ops[i].error = "Failed to upload"

\* C30: an upload without overwrite that has called save probed, with its
\* get, the very path it saves to, the current directory joined with the
\* name of the file, in whatever directory the view model is.
C30_ProbePathIsSavePath ==
    \A i \in UploadOps :
      \A k \in CallsOf(ops[i], "save") :
        ~ops[i].overwrite =>
          /\ ops[i].calls[1].method = "get"
          /\ ops[i].calls[1].arg = ops[i].calls[k].arg.path

(***************************************************************************)
(* Properties of the upload control.                                       *)
(***************************************************************************)
\* Every upload of the event has come to its end: the chain of each file is
\* done, no dialog is open, and so is every chain started from a dialog.
UploadsFinished ==
    /\ files # <<>>
    /\ \A k \in 1..Len(promises) :
          /\ ops[promises[k].upload].pc = "done"
          /\ promises[k].handler # "dialog"
          /\ promises[k].again # 0 => ops[promises[k].again].pc = "done"

\* C24: upload is called for every file of the event, whatever happens to
\* the others; the handler refreshes the model at most once; and once every
\* upload has come to its end, failed or not, it has refreshed the model
\* once, or does so in the end.
C24_AggregateRefresh ==
    /\ [](files # <<>> =>
            /\ Len(promises) = Len(files)
            /\ \A k \in 1..Len(files) :
                  ops[promises[k].upload].file = files[k])
    /\ [](refreshCalls <= 1)
    /\ UploadsFinished ~> (refreshCalls = 1)

\* C27: every upload of the control that fails for another reason than a
\* conflict, a rejection for size included, is shown as an error: once the
\* catch handler has returned for such a rejection, showErrorMessage has
\* been called with its error.
C27_FailuresReported ==
    \A k \in 1..Len(promises) :
      LET op == ops[promises[k].upload]
      IN  ( /\ op.promise = "rejected"
            /\ ~IsConflict(op.error)
            /\ promises[k].handler = "returned" ) =>
              \E e \in 1..Len(errorMessages) :
                 errorMessages[e].error = op.error

\* C32: the second call of upload, with overwrite, is made for the file
\* whose upload was rejected with 'already exists' and for no other file of
\* the event, and only from the dialog: a call with overwrite exists only
\* as the call made for a file whose first upload ended in that conflict.
C32_OverwriteSameFile ==
    /\ \A k \in 1..Len(promises) :
          promises[k].again # 0 =>
            /\ IsConflict(ops[promises[k].upload].error)
            /\ ops[promises[k].again].overwrite
            /\ ops[promises[k].again].file = files[k]
    /\ \A i \in UploadOps :
          ops[i].overwrite =>
            \E k \in 1..Len(promises) : promises[k].again = i

(***************************************************************************)
(* Properties of open and of the session recompute.                        *)
(***************************************************************************)
OpenOps == { i \in 1..Len(ops) : ops[i].kind = "open" }

\* A chain that is inside _findSessions: listRunning or a connectTo of it
\* has not settled yet.
Recomputing(op) == op.kind = "open" /\ op.pc \in {"list", "connect"}

\* The change a chain emits in a step, if it emits one.
EmitsIn(i) == Len(ops'[i].emitted) = Len(ops[i].emitted) + 1

Emitted(i) == ops'[i].emitted[Len(ops'[i].emitted)]

\* Chain j is recomputing the session ids for the model now current.
RecomputesFor(j, m) == Recomputing(ops'[j]) /\ ops'[j].contents = m

\* C3: when the 'open' change of a directory is emitted, the chain that
\* emits it has replaced the model and finished its recompute (listRunning
\* and every connectTo of it have settled), and the session ids are not in
\* the middle of a recompute: the model is still the directory of the
\* change, or at least no recompute for the model now current is under way.
C3_OpenAfterRecompute ==
    [][ \A i \in OpenOps :
          (EmitsIn(i) /\ Emitted(i).newValue.type = "directory") =>
             /\ ops'[i].pc = "done"
             /\ ops'[i].pending = {}
             /\ \/ model' = Emitted(i).newValue
                \/ \A j \in 1..Len(ops') : ~RecomputesFor(j, model') ]_vars

\* The get of open chain i resolves, in this step, with a file or notebook.
OpensFile(i) ==
    /\ ops[i].pc = "get"
    /\ ops[i].path \in FilePaths
    /\ ops'[i].pc = "done"
    /\ ops'[i].promise = "resolved"

\* C4: the step in which open fetches a file or a notebook leaves the model
\* (path and items), the session ids and the selected indices as they were
\* and emits one 'open' change, the only one of the call, whose newValue is
\* the fetched entry with its content.
C4_OpenFileFrame ==
    [][ \A i \in OpenOps :
          OpensFile(i) =>
             /\ model' = model
             /\ sessionIds' = sessionIds
             /\ selectedIndices' = selectedIndices
             /\ Len(ops'[i].emitted) = 1
             /\ ops'[i].emitted[1].name = "open"
             /\ ops'[i].emitted[1].newValue.path = ops[i].path
             /\ ops'[i].emitted[1].newValue.type \in {"file", "notebook"}
             /\ "content" \in DOMAIN ops'[i].emitted[1].newValue ]_vars

\* A file has been opened while a directory with items was open, rows were
\* selected and a session id was recorded.
C4_Witness ==
    \E i \in OpenOps :
      /\ ops[i].path = "f"
      /\ ops[i].promise = "resolved"
      /\ Len(ops[i].emitted) = 1
      /\ ItemCount > 0
      /\ selectedIndices # <<>>
      /\ sessionIds # <<>>

\* The get of open chain i resolves, in this step, with a directory that
\* holds no notebook.
OpensDirectoryWithoutNotebook(i) ==
    /\ ops[i].pc = "get"
    /\ ops'[i].pc # "get"
    /\ ops'[i].promise # "rejected"
    /\ ops[i].path \in DirectoryPaths
    /\ model'.path = ops[i].path
    /\ \A k \in 1..Len(model'.content) : model'.content[k].type # "notebook"

\* C6: the recompute for a directory that holds no notebook leaves the
\* session ids empty, calls neither listRunning nor connectTo, and is over
\* in the step that replaced the model.
C6_NoNotebookNoSessionCall ==
    [][ \A i \in OpenOps :
          OpensDirectoryWithoutNotebook(i) =>
             /\ sessionIds' = <<>>
             /\ CallsOf(ops'[i], "listRunning") = {}
             /\ CallsOf(ops'[i], "connectTo") = {}
             /\ ops'[i].pc = "done" ]_vars

\* The empty directory d/e has been opened from d, whose recompute had
\* connected to a session.
C6_Witness ==
    \E i, j \in OpenOps :
      /\ ops[i].path = "d/e"
      /\ ops[i].promise = "resolved"
      /\ model.path = "d/e"
      /\ ops[j].path = "d"
      /\ CallsOf(ops[j], "connectTo") # {}

\* C7: when no recompute is under way, every session id recorded is one
\* whose notebook path is the path of a notebook of the model, and one the
\* view model has connected to.
C7_SessionMembership ==
    (\A j \in 1..Len(ops) : ~Recomputing(ops[j])) =>
       \A k \in 1..Len(sessionIds) :
          /\ "content" \in DOMAIN model
          /\ InPaths(NotebookPaths(model), sessionIds[k].notebook.path)
          /\ \E i \in OpenOps :
                Call("sessions", "connectTo", sessionIds[k].id)
                   \in { ops[i].calls[c] : c \in 1..Len(ops[i].calls) }

\* C8: an open whose get and listRunning resolved and whose connects have
\* all settled is resolved and has emitted its change, also when one of the
\* connects was rejected.
C8_ConnectFailureIsLocal ==
    \A i \in OpenOps :
       (ops[i].pc = "done" /\ CallsOf(ops[i], "connectTo") # {}) =>
          /\ ops[i].promise = "resolved"
          /\ Len(ops[i].emitted) = 1

\* C9: every selected index is a position of the current items.
C9_SelectionValid ==
    \A k \in 1..Len(selectedIndices) :
       0 <= selectedIndices[k] /\ selectedIndices[k] < ItemCount

\* C31: a session of the listing whose notebook is one of the directory and
\* whose connectTo reports idle is added to the session ids under its own
\* id, once: the step in which the connectTo of a session id settles and the
\* session ids grow appends the session of that id, which was not among
\* them before, whatever the order in which the connects settle.
C31_SessionsUnderOwnId ==
    [][ \A i \in OpenOps, id \in {"s1", "s2", "s3"} :
          ( /\ id \in ops[i].pending
            /\ id \notin ops'[i].pending
            /\ Len(sessionIds') = Len(sessionIds) + 1 ) =>
              /\ sessionIds'[Len(sessionIds')].id = id
              /\ \A k \in 1..Len(sessionIds) : sessionIds[k].id # id ]_vars

\* C33: when opens of directories overlap, the session ids hold nothing
\* that was confirmed for a directory since replaced, and every change is
\* emitted with the directory that is current: a connectTo adds to the
\* session ids only while the directory of its open is still the model, and
\* the newValue of an 'open' change of a directory is the model at the
\* moment it is emitted.
C33_OverlappingOpens ==
    [][ \A i \in OpenOps :
          /\ ( /\ ops'[i].pending # ops[i].pending
               /\ Len(sessionIds') > Len(sessionIds) ) =>
                 ops[i].contents = model
          /\ (EmitsIn(i) /\ Emitted(i).newValue.type = "directory") =>
                 Emitted(i).newValue = model' ]_vars

\* C34: once dispose() has been called on the view model, isDisposed is true
\* in every later state, also when an open issued before the dispose
\* completes after it: no step of a chain takes a disposed view model back
\* to a model that is not null.
C34_DisposedStaysDisposed ==
    [][ IsDisposed => IsDisposed' ]_vars

\* C35: at any time at most one auto-refresh timer is pending, each
\* refreshed signal cancelling the pending timer before it arms a new one;
\* and once the widget is disposed no timer fires a refresh on it.
C35_OneTimerNoneAfterDispose ==
    [][ /\ Cardinality(timers') <= 1
        /\ \A id \in timers : TimerFires(id) => widgetModel = "model" ]_vars

\* The promise of an open is rejected in this step.
OpenRejectedIn(i) ==
    /\ i \in OpenOps
    /\ ops[i].promise = "pending"
    /\ ops'[i].promise = "rejected"

\* C25: an open whose get or whose listRunning fails is rejected and leaves
\* the model as it was before the call.  For the first call made on a view
\* model: once it is rejected, the model is the one of the constructor, the
\* session ids are empty and it has emitted no change; and the step that
\* rejects an open changes neither the model, the session ids nor the
\* selection.
C25_FailedOpenLeavesModel ==
    /\ [](( /\ Len(ops) = 1
            /\ ops[1].kind = "open"
            /\ ops[1].promise = "rejected"
            /\ ops[1].error \in {"get failed", "listRunning failed"} ) =>
              /\ model = [path |-> "", name |-> "", type |-> "directory"]
              /\ sessionIds = <<>>
              /\ ops[1].emitted = <<>>)
    /\ [][ \A i \in 1..Len(ops) :
             OpenRejectedIn(i) =>
               UNCHANGED <<model, sessionIds, selectedIndices>> ]_vars

(***************************************************************************)
(* Properties of the changed signal.                                       *)
(***************************************************************************)
MutatingKinds ==
    {"open", "rename", "copy", "delete", "upload", "newUntitled"}

\* C5: a call of open, rename, copy, delete, upload or newUntitled whose
\* promise is resolved has emitted exactly one change, and one whose promise
\* is rejected has emitted none.
C5_OneChangePerOperation ==
    \A i \in 1..Len(ops) :
       ops[i].kind \in MutatingKinds =>
          /\ ops[i].promise = "resolved" => Len(ops[i].emitted) = 1
          /\ ops[i].promise = "rejected" => Len(ops[i].emitted) = 0

RenameOps == { i \in 1..Len(ops) : ops[i].kind = "rename" }

\* C22: a rename that has succeeded has emitted a 'rename' change whose
\* oldValue is the entry that was at the resolved path before the rename
\* and whose newValue is the entry at the resolved new path.
C22_RenameChange ==
    \A i \in RenameOps :
      ops[i].promise = "resolved" =>
        \E k \in 1..Len(ops[i].emitted) :
          /\ ops[i].emitted[k].name = "rename"
          /\ ops[i].emitted[k].oldValue.path = ops[i].path
          /\ ops[i].emitted[k].oldValue.name = BaseName(ops[i].path)
          /\ ops[i].emitted[k].newValue.path = ops[i].arg

(***************************************************************************)
(* Properties of the accessors.                                            *)
(***************************************************************************)
\* C10: the array behind selected changes only when selected is set, and
\* the array behind items only when the model is replaced: nothing a caller
\* does to an array it passed to set selected, or got from selected or
\* items, changes them.
C10_NoAliasing ==
    [][ /\ selectedRef' = selectedRef =>
              arrays'[selectedRef] = arrays[selectedRef]
        /\ (contentRef' = contentRef /\ contentRef # 0) =>
              arrays'[contentRef] = arrays[contentRef] ]_vars

\* selected was set from an array of the caller, the caller has changed
\* that array since, and the caller has changed an array it got from a
\* getter.
C10_Witness ==
    /\ passedRef # 0
    /\ arrays[passedRef] # arrays[selectedRef]
    /\ returnedRefs \cap mutatedRefs # {}

(***************************************************************************)
(* Properties of refresh.                                                  *)
(***************************************************************************)
\* The listing of a refresh returns in this step and replaces the items.
RefreshReplaces(p) ==
    /\ p \in refreshing
    /\ refreshing' = refreshing \ {p}
    /\ browserItems' = ListContents(p)
    /\ browserItems' # browserItems

\* A chain that has recomputed the session ids: it has called listRunning
\* and every call of it has settled.
Recomputed(op) ==
    /\ CallsOf(op, "listRunning") # {}
    /\ op.pc = "done"
    /\ op.pending = {}

\* C23: when the listing of a refresh returns and replaces the items, the
\* listing is the one of a path that was refreshed, and by the time the
\* opened signal is out (the widget has been asked to update) the session
\* ids have been recomputed: a chain has called listRunning and has settled.
C23_RefreshOrder ==
    [][ \A p \in refreshing :
          RefreshReplaces(p) =>
            /\ updateRequested'
            /\ \E i \in 1..Len(ops') : Recomputed(ops'[i]) ]_vars

\* C26: listings in flight at the same time, for opens of directories and
\* refreshes, are not serialized, and once all have returned the snapshot is
\* the response that came last: when the response for a path replaces the
\* items and no listing is left in flight, the items are that response and
\* the path of the view model is its path, whichever call was made first.
C26_LastResponseWins ==
    [][ \A p \in refreshing :
          (RefreshReplaces(p) /\ refreshing' = {}) =>
             /\ browserItems' = ListContents(p)
             /\ browserPath' = p ]_vars

(***************************************************************************)
(* Properties of the clicks on the rows of the FileBrowser widget.         *)
(***************************************************************************)
\* The rows that have the selected class.
Rendered(ns) == { i \in 0..(Len(ns) - 1) : ns[i + 1] }

\* The step handles a left click on a row with the given key held.
RowClicked(key) ==
    /\ lastEvent'.type = "click"
    /\ lastEvent'.button = 0
    /\ lastEvent'.hit = "row"
    /\ lastEvent'.key = key

\* The selected row other than c with the smallest distance to c, the
\* lowest such row when two are as near; row 0 when no other row is
\* selected.
AnchorOf(S, c) ==
    IF S \ {c} = {} THEN 0
    ELSE CHOOSE a \in S \ {c} :
           \A b \in S \ {c} :
              \/ Abs(a - c) < Abs(b - c)
              \/ Abs(a - c) = Abs(b - c) /\ a <= b

\* The rows from a to c, whichever is the lower.
SpanRows(a, c) == IF a <= c THEN a..c ELSE c..a

\* C11: a left shift-click on row c selects, besides the rows that were
\* selected, exactly the rows from the nearest selected row to c: the
\* selection of the view model becomes the rows selected before together
\* with that span, in ascending order.
C11_ShiftClickRange ==
    [][ RowClicked("shift") =>
          browserSelected' =
             Ascending(Rendered(nodes) \cup
                       SpanRows(AnchorOf(Rendered(nodes), lastEvent'.index),
                                lastEvent'.index)) ]_vars

\* C12: the selection of the view model is empty at first and changes only
\* in a left click on a row; a left shift-click on row c that finds no row
\* selected makes it 0, ..., c.
C12_ShiftClickFromNothing ==
    /\ browserSelected = <<>>
    /\ [][ /\ browserSelected' # browserSelected =>
                 \E key \in Keys : RowClicked(key)
           /\ ( /\ RowClicked("shift")
                /\ Rendered(nodes) = {} \/ browserSelected = <<>> ) =>
                 browserSelected' = Ascending(0..lastEvent'.index) ]_vars

\* The last row of five was shift-clicked when no row was selected, and
\* the five rows are selected.
C12_Witness ==
    /\ lastEvent.type = "click" /\ lastEvent.button = 0
    /\ lastEvent.hit = "row" /\ lastEvent.key = "shift"
    /\ lastEvent.rows = <<>>
    /\ lastEvent.index = 4
    /\ browserSelected = <<0, 1, 2, 3, 4>>

\* The indices of a selection, as a set.
Members(sel) == { sel[k] : k \in 1..Len(sel) }

\* C13: a left click on row c with ctrl or meta held makes the selection of
\* the view model the selection it was with c added when c was not in it
\* and removed when it was; no other row enters or leaves it.
C13_CtrlClickToggles ==
    [][ (RowClicked("ctrl") \/ RowClicked("meta")) =>
          browserSelected' =
             Ascending(IF lastEvent'.index \in Members(browserSelected)
                         THEN Members(browserSelected) \ {lastEvent'.index}
                         ELSE Members(browserSelected)
                                 \cup {lastEvent'.index}) ]_vars

\* C36: in every reachable state, after any clicks, refreshes and directory
\* changes, the selection of the view model is the ascending list of the
\* indices of the rows that are rendered as selected, so that a double
\* click, which opens the selection of the view model, opens the rows shown
\* as selected and no other.
C36_SelectionIsRendered ==
    browserSelected = SelectedRows(nodes)

\* C14: a left click on row c with no key held makes the selection of the
\* view model <<c>>, whatever it was; a click with another button and a
\* click that hits no row leave the selection and the rows as they were.
C14_PlainClickSelectsOne ==
    [][ /\ RowClicked("none") => browserSelected' = <<lastEvent'.index>>
        /\ ( /\ lastEvent'.type = "click"
             /\ lastEvent'.button # 0 \/ lastEvent'.hit # "row" ) =>
              /\ browserSelected' = browserSelected
              /\ nodes' = nodes ]_vars

\* Row 2 was clicked when rows 0, 3 and 4 were selected, and it is the
\* only row selected now.
C14_Witness ==
    /\ lastEvent.type = "click" /\ lastEvent.button = 0
    /\ lastEvent.hit = "row" /\ lastEvent.key = "none"
    /\ lastEvent.rows = <<0, 3, 4>>
    /\ lastEvent.index = 2
    /\ browserSelected = <<2>>
    /\ Rendered(nodes) = {2}

(***************************************************************************)
(* Properties of the drag controller.                                      *)
(***************************************************************************)
\* The pointer is no further from the press than the threshold.
WithinThreshold ==
    /\ Abs(pointer.x - dragData.pressX) <= DragThreshold
    /\ Abs(pointer.y - dragData.pressY) <= DragThreshold

\* C28: a gesture whose displacement never exceeds the drag threshold emits
\* no move request and ends as a click.  While the controller is armed the
\* pointer has stayed within the threshold and no payload exists; a request
\* is emitted only from dragging, which is entered only by a move past the
\* threshold; and a release while armed leads to idle with no request, the
\* rows and the selection being those the click algorithm gives.
C28_BelowThresholdNoRequest ==
    /\ [](gesture = "armed" => (WithinThreshold /\ payload = <<>>))
    /\ [][ /\ requests' # requests => gesture = "dragging"
           /\ (gesture # "dragging" /\ gesture' = "dragging") =>
                 (gesture = "armed" /\ ~WithinThreshold')
           /\ (gesture = "armed" /\ gesture' # "dragging") =>
                 /\ requests' = requests
                 /\ gesture' \in {"armed", "idle"}
                 /\ gesture' = "idle" =>
                       \E key \in Keys :
                         /\ nodes' = ClickRow(nodes, dragData.index, key)
                         /\ browserSelected' = SelectedRows(nodes')
         ]_vars

\* A first gesture has ended as a click, which selected a row, no request
\* has been emitted, and in a second gesture the pointer is at the threshold
\* from the press with the controller still armed.
C28_Witness ==
    /\ gesture = "armed"
    /\ Abs(pointer.x - dragData.pressX) = DragThreshold
    /\ browserSelected # <<>>
    /\ requests = <<>>

(***************************************************************************)
(* Properties of FileBrowserWidget.open().                                 *)
(***************************************************************************)
\* The positions of the selected items of a type among the given ones.
SelectedOf(types) ==
    { k \in 1..Len(sortedItems) :
        /\ sortedItems[k].name \in selectedNames
        /\ sortedItems[k].type \in types }

\* The items at a set of positions, in the order of the list.
RECURSIVE ItemsAt(_, _)
ItemsAt(K, k) ==
    IF k > Len(sortedItems) THEN <<>>
    ELSE (IF k \in K THEN <<sortedItems[k]>> ELSE <<>>) \o ItemsAt(K, k + 1)

\* C29: open() changes directory at most once, into the first selected
\* directory of the sorted items when one is selected, and emits
\* openRequested for every selected file and notebook, in order, and for
\* nothing else: for no directory and for no item that is not selected.
C29_WidgetOpen ==
    \A k \in 1..Len(opened) :
      LET dirs == SelectedOf({"directory"})
          first == CHOOSE d \in dirs : \A e \in dirs : d <= e
      IN  /\ Len(opened[k].cd) <= 1
          /\ opened[k].cd =
                IF dirs = {} THEN <<>> ELSE <<sortedItems[first].name>>
          /\ opened[k].openRequested =
                ItemsAt(SelectedOf({"file", "notebook"}), 1)

(***************************************************************************)
(* Properties of normalizePath.                                            *)
(***************************************************************************)
\* The call followed has returned the value v.
Returned(v) == resolved = <<v>>

\* C15: a path that starts with a chain of '../' and goes on with a plain
\* fragment resolves to a path without a '..' segment, and
\* normalizePath("a/b", "../../../c") returns "c".
C15_ParentChainClamps ==
    \A k \in 1..MaxUp, frag \in PlainFragments :
       (resolveInput = Ups(k) \o frag /\ resolved # <<>>) =>
          /\ \A n \in 1..Len(Split(resolved[1])) :
                Split(resolved[1])[n] # ".."
          /\ (resolveRoot = "a/b" /\ k = 3 /\ frag = "c") => Returned("c")

\* The root without its last n segments, joined with the fragment; the
\* fragment alone when nothing of the root is left.
WithoutLast(root, n, frag) ==
    LET segs == Split(root)
        left == IF Len(segs) > n THEN Join(SubSeq(segs, 1, Len(segs) - n))
                ELSE ""
    IN  IF left = "" THEN frag ELSE left \o "/" \o frag

\* C16: for every root and every plain fragment p, normalizePath of
\* '../' p is the root without its last segment joined with p, and of
\* '../../' p the root without its last two segments joined with p; p alone
\* when the root has no more segments than are dropped.
C16_ParentPrefixes ==
    \A frag \in PlainFragments :
       /\ (resolveInput = "../" \o frag /\ resolved # <<>>) =>
             Returned(WithoutLast(resolveRoot, 1, frag))
       /\ (resolveInput = "../../" \o frag /\ resolved # <<>>) =>
             Returned(WithoutLast(resolveRoot, 2, frag))
       /\ (resolveRoot = "a/b" /\ resolveInput = "../c" /\ resolved # <<>>) =>
             Returned("a/c")
       /\ ( /\ resolveRoot = "a/b" /\ resolveInput = "../../c"
            /\ resolved # <<>> ) => Returned("c")

\* normalizePath("a", "../../c") has returned "c": the root had fewer
\* segments than were dropped.
C16_Witness ==
    resolveRoot = "a" /\ resolveInput = "../../c" /\ Returned("c")

\* C17: normalizePath(root, ".") returns the root as it is, for every root.
C17_DotIsRoot ==
    (resolveInput = "." /\ resolved # <<>>) => Returned(resolveRoot)

\* normalizePath("a/", ".") has returned "a/".
C17_Witness ==
    resolveRoot = "a/" /\ resolveInput = "." /\ Returned("a/")

\* C18: for a path with a leading '/', normalizePath returns the path
\* without that '/' and without one trailing '/', and the same for every
\* other root.
C18_AbsoluteIgnoresRoot ==
    (StartsWith(resolveInput, "/") /\ resolved # <<>>) =>
       LET p == SubSeq(resolveInput, 2, Len(resolveInput))
       IN  /\ Returned(IF Len(p) > 0 /\ SubSeq(p, Len(p), Len(p)) = "/"
                         THEN SubSeq(p, 1, Len(p) - 1)
                       ELSE p)
           /\ \A other \in ResolveRoots :
                 Returned(normalizePath(other, resolveInput))

\* normalizePath("a", "/x/y") has returned "x/y".
C18_Witness ==
    resolveRoot = "a" /\ resolveInput = "/x/y" /\ Returned("x/y")

\* C19: for a root that is not empty and a plain fragment p, normalizePath
\* of './' p '/' is the root, a '/' and p, which is also normalizePath of p.
C19_DotSlashAndTrailingSlash ==
    \A frag \in PlainFragments :
       ( /\ resolveRoot # ""
         /\ resolveInput = "./" \o frag \o "/"
         /\ resolved # <<>> ) =>
          /\ Returned(resolveRoot \o "/" \o frag)
          /\ Returned(normalizePath(resolveRoot, frag))

\* normalizePath("a/b", "./c/") has returned "a/b/c".
C19_Witness ==
    resolveRoot = "a/b" /\ resolveInput = "./c/" /\ Returned("a/b/c")

=============================================================================
